---- MODULE Spec2Model ----
(***************************************************************************)
(* A model of fhir-package-explorer (src/src/index.ts, src/src/utils.ts):  *)
(* the dependency-closure resolver, the lazily built per-package index and *)
(* fast-lookup buckets (both LRU caches), the filter matcher and the       *)
(* duplicate-resolution chain.                                             *)
(*                                                                         *)
(* Strings are TLA+ strings, read character by character (SubSeq), so that  *)
(* the code's key formatting (`${id}#${version}`, `${id}@${version}`, the  *)
(* fast-index keys), its parsing (split('#'), split('|'), the package-id   *)
(* patterns) and JavaScript's string comparison are modelled by what they  *)
(* do.                                                                     *)
(***************************************************************************)
EXTENDS Integers, Sequences, FiniteSets, TLC

VARIABLES
  deps,                    \* collaborator: getDependencies, package -> set of packages
  pkgFiles,                \* collaborator: getPackageIndexFile(pkg).files, package -> sequence of raw entries
  skipExamples,            \* config.skipExamples
  fault,                   \* the collaborator call that fails, if any, and its error
  fpiCalls,                \* history: the collaborator calls create has made, in order
  inflight,                \* the lookupMeta calls in flight, each with its local state
  fetches,                 \* history: how often the raw index of each package was fetched
  context,                 \* config.context, already normalised to package identifiers
  phase,                   \* "new" before create() has settled, then "ready" or "failed"
  contextPackages,         \* this.contextPackages
  normalizedRootPackages,  \* this.normalizedRootPackages
  indexCache,              \* this.indexCache (LRU), least recently used first
  fastIndex,               \* this.fastIndex (LRU), least recently used first
  contentCache,            \* this.contentCache (LRU), least recently used first
  indexCacheSize,          \* config.indexCacheSize ?? 500
  fastIndexSize,           \* config.fastIndexSize ?? 10000
  contentCacheSize,        \* config.contentCacheSize ?? 500
  queries,                 \* the number of queries made on the instance
  query,                   \* the filter of the last query
  callerFilter,            \* the filter object the caller passed to the last query, as the call left it
  candidates,              \* the matches the last resolve/resolveMeta got from its lookup
  ret,                     \* the outcome of the last operation
  visited,                 \* _collectDependencies: the visited set of the traversal in progress
  stack                    \* _collectDependencies: the pending visit() calls of the traversal in progress

vars == <<deps, pkgFiles, skipExamples, callerFilter, fault, fpiCalls, inflight, fetches, context, phase,
          contextPackages, normalizedRootPackages, indexCache, fastIndex, contentCache,
          indexCacheSize, fastIndexSize, contentCacheSize, queries, query, candidates, ret,
          visited, stack>>

----------------------------------------------------------------------------
(* Bounds of the model *)

\* most dependency links in a dependency graph
MaxEdges == 3
\* most entries in config.context
MaxContext == 3

\* new LRUCache({ max: contentCacheSize ?? 500 }) and the two other defaults
DefaultContentCacheSize == 500
DefaultIndexCacheSize == 500
DefaultFastIndexSize == 10000

----------------------------------------------------------------------------
(* Strings *)

\* The characters the model uses, in the order of their UTF-16 code units.
Alphabet == <<"#","-",".","0","1","2","3","4","5","6","7","8","9",":","@",
              "C","M","S","T","V",
              "a","b","c","d","e","f","g","h","i","j","k","l","m","n","o","p",
              "q","r","s","t","u","v","w","x","y","z","|">>

Chars == {Alphabet[i] : i \in DOMAIN Alphabet}

\* The rank of a character in code-unit order.
CodeOf == [c \in Chars |-> CHOOSE i \in DOMAIN Alphabet : Alphabet[i] = c]

Digits == {"0","1","2","3","4","5","6","7","8","9"}

Min(a, b) == IF a < b THEN a ELSE b

\* The one element of a singleton set (its operand is evaluated once).
TheOne(S) == CHOOSE x \in S : TRUE

\* s[i - 1] of a JavaScript string: its i-th character
Ch(s, i) == SubSeq(s, i, i)

\* s < t from character i on, the characters before it being equal
RECURSIVE StrLessFrom(_, _, _)
StrLessFrom(s, t, i) ==
  IF i > Len(t) THEN FALSE
  ELSE IF i > Len(s) THEN TRUE
  ELSE IF Ch(s, i) = Ch(t, i) THEN StrLessFrom(s, t, i + 1)
  ELSE CodeOf[Ch(s, i)] < CodeOf[Ch(t, i)]

\* JavaScript's s < t on strings: the first differing code unit decides, and a
\* proper prefix is less.
StrLess(s, t) == \E a \in {s}, b \in {t} : StrLessFrom(a, b, 1)

\* String.prototype.includes
Includes(s, sub) ==
  \E i \in 1..(Len(s) - Len(sub) + 1) : SubSeq(s, i, i + Len(sub) - 1) = sub

\* String.prototype.split(sep) for a one-character separator.
RECURSIVE Split(_, _)
Split(s, sep) ==
  IF \A i \in 1..Len(s) : Ch(s, i) # sep THEN <<s>>
  ELSE LET i == CHOOSE k \in 1..Len(s) :
                  Ch(s, k) = sep /\ \A j \in 1..(k - 1) : Ch(s, j) # sep
       IN  <<SubSeq(s, 1, i - 1)>> \o Split(SubSeq(s, i + 1, Len(s)), sep)

\* The value JavaScript gives a missing array element or object field.
Undefined == [undefined |-> TRUE]

\* arr[i] of a JavaScript array
At(arr, i) == IF i \in 1..Len(arr) THEN arr[i] ELSE Undefined

----------------------------------------------------------------------------
(* Package identifiers *)

Pkg(i, v) == [id |-> i, version |-> v]

\* `${p.id}#${p.version}`
PkgKey(p) == p.id \o "#" \o p.version

\* `${a.id}@${a.version}`
SortKey(p) == p.id \o "@" \o p.version

\* const [id, version] = key.split('#')
KeyToPkg(key) == LET parts == Split(key, "#") IN Pkg(At(parts, 1), At(parts, 2))

\* The collaborator's toPackageObject on an `id#version` string.
toPackageObject(key) == KeyToPkg(key)

\* The package an index entry is stamped with.
Owner(entry) == Pkg(entry["__packageId"], entry["__packageVersion"])

PkgLess(a, b) == StrLess(SortKey(a), SortKey(b))

\* Array.prototype.sort is stable: an element goes before the first element
\* the comparator puts it before, so after the elements equal to it.
InsertPkg(sorted, x) ==
  LET k == Cardinality({i \in DOMAIN sorted : \A j \in 1..i : ~PkgLess(x, sorted[j])})
  IN  SubSeq(sorted, 1, k) \o <<x>> \o SubSeq(sorted, k + 1, Len(sorted))

\* The first n elements of arr, sorted.
RECURSIVE SortFirst(_, _)
SortFirst(arr, n) ==
  IF n = 0 THEN <<>>
  ELSE TheOne({InsertPkg(front, arr[n]) : front \in {SortFirst(arr, n - 1)}})

sortPackages(arr) == TheOne({SortFirst(a, Len(a)) : a \in {arr}})

Range(s) == {s[i] : i \in DOMAIN s}

\* The values of a Map or Set in some iteration order.
RECURSIVE SetToSeq(_)
SetToSeq(S) ==
  IF S = {} THEN <<>>
  ELSE LET x == CHOOSE x \in S : TRUE IN <<x>> \o SetToSeq(S \ {x})

----------------------------------------------------------------------------
(* The closure resolver *)

\* A resolver that skips example packages whatever skipExamples says.
SkipDependency_AlwaysSkip(d) == Includes(d.id, "examples")

\* A resolver that walks into example packages whatever skipExamples says.
SkipDependency_NeverSkip(d) == FALSE

\* if (this.skipExamples && id.includes('examples')) continue;
SkipDependency(d) == skipExamples /\ Includes(d.id, "examples")

\* The dependencies visit() walks into.
WalkedDeps(p) == {d \in deps[p] : ~SkipDependency(d)}

\* _collectDependencies: the set of `id#version` keys visit() has added when
\* the traversal from pkg returns.
RECURSIVE visit(_, _)
RECURSIVE visitEach(_, _)
visit(p, seen) ==
  IF PkgKey(p) \in seen THEN seen
  ELSE visitEach(WalkedDeps(p), seen \cup {PkgKey(p)})

visitEach(ds, seen) ==
  IF ds = {} THEN seen
  ELSE LET d == CHOOSE d \in ds : TRUE IN visitEach(ds \ {d}, visit(d, seen))

\* A traversal that stops at its root.
collectDependencies_RootOnly(pkg) == {PkgKey(pkg)}

collectDependencies(pkg) == visit(pkg, {})

\* rootMap: the context without repeated identifiers, in order of first occurrence
RECURSIVE InitialRoots(_)
InitialRoots(ctx) ==
  IF ctx = <<>> THEN <<>>
  ELSE LET front == InitialRoots(SubSeq(ctx, 1, Len(ctx) - 1))
           last  == ctx[Len(ctx)]
       IN  IF \E i \in DOMAIN front : PkgKey(front[i]) = PkgKey(last)
           THEN front ELSE Append(front, last)

\* redundant: the keys of the roots that lie in another root's closure
RedundantRoots(roots) ==
  {PkgKey(roots[j]) : j \in {j \in DOMAIN roots :
      \E i \in DOMAIN roots :
        /\ PkgKey(roots[i]) # PkgKey(roots[j])
        /\ PkgKey(roots[j]) \in collectDependencies(roots[i])}}

\* A resolver that forgets to drop the redundant roots.
MinimalRoots_KeepAll(roots) == roots

MinimalRoots(roots) ==
  LET redundant == RedundantRoots(roots)
      kept == SelectSeq(roots, LAMBDA r : PkgKey(r) \notin redundant)
  IN  IF kept = <<>> /\ roots # <<>> THEN <<sortPackages(roots)[1]>> ELSE kept

\* finalContextMap: the packages of the closures of the minimal roots
FinalContext(minimalRoots) ==
  {KeyToPkg(key) : key \in UNION {collectDependencies(minimalRoots[i]) : i \in DOMAIN minimalRoots}}

\* _loadContext: what it stores in normalizedRootPackages and contextPackages
loadContext(ctx) ==
  LET minimalRoots == MinimalRoots(InitialRoots(ctx))
  IN  [normalizedRootPackages |-> sortPackages(minimalRoots),
       contextPackages |-> sortPackages(SetToSeq(FinalContext(minimalRoots)))]

----------------------------------------------------------------------------
(* The inputs of the closure resolver *)

CtxPackages ==
  {Pkg("hl7.terminology", "5.0.0"),
   Pkg("hl7.terminology.r4", "5.0.0"),
   Pkg("hl7.fhir.r4.examples", "4.0.1")}

\* Dependency maps: a package declares at most one version of a dependency id.
GraphsOver(pkgs, maxEdges) ==
  {g \in [pkgs -> SUBSET pkgs] :
     /\ \A p \in pkgs : \A d, e \in g[p] : d.id = e.id => d = e
     /\ Cardinality({pd \in pkgs \X pkgs : pd[2] \in g[pd[1]]}) <= maxEdges}

SeqsUpTo(S, n) == UNION {[1..k -> S] : k \in 0..n}

NoFiles(pkgs) == [p \in pkgs |-> <<>>]
NoRet == [op |-> "none"]
\* no collaborator call fails
NoFault == [call |-> "none"]
NoQuery == [none |-> TRUE]

----------------------------------------------------------------------------
(* create() and the getters *)

\* The collaborator calls _loadContext makes when none of them fails.
LoadContextCalls(ctx) ==
  LET initialRoots == InitialRoots(ctx)
      walked == UNION {collectDependencies(initialRoots[i]) : i \in DOMAIN initialRoots}
  IN  {[call |-> "toPackageObject", pkg |-> ctx[i]] : i \in DOMAIN ctx}
      \cup {[call |-> "install", pkg |-> initialRoots[i]] : i \in DOMAIN initialRoots}
      \cup {[call |-> "getDependencies", pkg |-> KeyToPkg(key)] : key \in walked}
      \cup {[call |-> "install", pkg |-> p] : p \in FinalContext(MinimalRoots(initialRoots))}

\* The failing call is one of the calls: the calls before it are those of a
\* run without failure.
FaultHits(calls) ==
  fault.call # "none" /\ [call |-> fault.call, pkg |-> fault.pkg] \in calls

\* visited, the Set of _collectDependencies, in insertion order: getDependencies
\* is called on a package when it is added.
RECURSIVE visitOrder(_, _)
RECURSIVE visitEachOrder(_, _)
visitOrder(p, seen) ==
  IF PkgKey(p) \in Range(seen) THEN seen
  ELSE visitEachOrder(WalkedDeps(p), Append(seen, PkgKey(p)))

visitEachOrder(ds, seen) ==
  IF ds = {} THEN seen
  ELSE LET d == CHOOSE d \in ds : TRUE IN visitEachOrder(ds \ {d}, visitOrder(d, seen))

\* The calls of the loop over the first n roots: install(root), then the
\* getDependencies calls of the walk from root.
RECURSIVE RootCalls(_, _)
RootCalls(roots, n) ==
  IF n = 0 THEN <<>>
  ELSE LET root == roots[n]
           closure == visitOrder(root, <<>>)
       IN  RootCalls(roots, n - 1)
           \o <<[call |-> "install", pkg |-> root]>>
           \o [i \in DOMAIN closure |->
                [call |-> "getDependencies", pkg |-> KeyToPkg(closure[i]), root |-> root]]

\* the keys of finalContextMap in insertion order, after the first n minimal roots
RECURSIVE FinalContextOrder(_, _)
FinalContextOrder(minimalRoots, n) ==
  IF n = 0 THEN <<>>
  ELSE LET before == FinalContextOrder(minimalRoots, n - 1)
       IN  before \o SelectSeq(visitOrder(minimalRoots[n], <<>>),
                               LAMBDA key : key \notin Range(before))

\* A _loadContext without its last loop, the one that installs the packages
\* of the final context.
LoadContextCallsInOrder_RootsOnly(ctx) ==
  LET initialRoots == InitialRoots(ctx)
  IN  [i \in DOMAIN ctx |-> [call |-> "toPackageObject", pkg |-> ctx[i]]]
      \o RootCalls(initialRoots, Len(initialRoots))

\* The collaborator calls of _loadContext, in the order it makes them when
\* none of them fails.
LoadContextCallsInOrder(ctx) ==
  LET initialRoots == InitialRoots(ctx)
      minimalRoots == MinimalRoots(initialRoots)
      final == FinalContextOrder(minimalRoots, Len(minimalRoots))
  IN  [i \in DOMAIN ctx |-> [call |-> "toPackageObject", pkg |-> ctx[i]]]
      \o RootCalls(initialRoots, Len(initialRoots))
      \o [i \in DOMAIN final |-> [call |-> "install", pkg |-> KeyToPkg(final[i])]]

\* The calls made when the failing call is among them: those up to it.
CallsUpToFault(log) ==
  LET hits == {i \in DOMAIN log : log[i].call = fault.call /\ log[i].pkg = fault.pkg}
  IN  IF hits = {} THEN log
      ELSE SubSeq(log, 1, CHOOSE i \in hits : \A j \in hits : i <= j)

\* create when a call of _loadContext rejects: the rejection is the one of
\* create, and this.contextPackages was not assigned.
CreateFails ==
  /\ phase = "new"
  /\ FaultHits(LoadContextCalls(context))
  /\ phase' = "failed"
  /\ ret' = [op |-> "create", outcome |-> "error", error |-> fault.error]
  /\ fpiCalls' = CallsUpToFault(LoadContextCallsInOrder(context))
  /\ UNCHANGED <<deps, pkgFiles, skipExamples, callerFilter, fault, inflight, fetches, context,
                 contextPackages, normalizedRootPackages, indexCache, fastIndex,
                 contentCache, indexCacheSize, fastIndexSize, contentCacheSize, queries,
                 query, candidates, visited, stack>>

Create ==
  /\ phase = "new"
  /\ ~FaultHits(LoadContextCalls(context))
  /\ LET loaded == loadContext(context)
     IN  /\ contextPackages' = loaded.contextPackages
         /\ normalizedRootPackages' = loaded.normalizedRootPackages
  /\ phase' = "ready"
  /\ fpiCalls' = LoadContextCallsInOrder(context)
  /\ UNCHANGED <<deps, pkgFiles, skipExamples, callerFilter, fault, inflight, fetches, context, indexCache,
                 fastIndex, contentCache,
                 indexCacheSize, fastIndexSize, contentCacheSize, queries,
                 query, candidates, ret, visited, stack>>

InitCtx ==
  /\ deps \in GraphsOver(CtxPackages, MaxEdges)
  /\ pkgFiles = NoFiles(CtxPackages)
  /\ skipExamples \in BOOLEAN
  /\ callerFilter = NoQuery
  /\ fpiCalls = <<>>
  /\ fault = NoFault
  /\ inflight = <<>>
  /\ fetches = <<>>
  /\ context \in SeqsUpTo(CtxPackages, MaxContext)
  /\ phase = "new"
  /\ contextPackages = <<>>
  /\ normalizedRootPackages = <<>>
  /\ indexCache = <<>>
  /\ fastIndex = <<>>
  /\ contentCache = <<>>
  /\ indexCacheSize = DefaultIndexCacheSize
  /\ fastIndexSize = DefaultFastIndexSize
  /\ contentCacheSize = DefaultContentCacheSize
  /\ queries = 0
  /\ query = NoQuery
  /\ candidates = <<>>
  /\ ret = NoRet
  /\ visited = <<>>
  /\ stack = <<>>

NextCtx == Create

\* most dependency links and context entries of a create with a failing call
MaxFaultEdges == 2
MaxFaultContext == 2

\* What a failing collaborator call rejects with: an error of the transport,
\* or one that tells the call and the package.
CollaboratorErrors(call, pkg) ==
  {"socket hang up", call \o " failed for " \o pkg.id \o "@" \o pkg.version}

\* one failing call on one of the packages
FaultsOn(calls, pkgs) ==
  {[call |-> c, pkg |-> p, error |-> e] :
     c \in calls, p \in pkgs, e \in UNION {CollaboratorErrors(d, q) : d \in calls, q \in pkgs}}

InitCreateFault ==
  /\ deps \in GraphsOver(CtxPackages, MaxFaultEdges)
  /\ pkgFiles = NoFiles(CtxPackages)
  /\ skipExamples \in BOOLEAN
  /\ callerFilter = NoQuery
  /\ fpiCalls = <<>>
  /\ fault \in {f \in FaultsOn({"toPackageObject", "install", "getDependencies"}, CtxPackages) :
                  f.error \in CollaboratorErrors(f.call, f.pkg)}
  /\ inflight = <<>>
  /\ fetches = <<>>
  /\ context \in SeqsUpTo(CtxPackages, MaxFaultContext)
  /\ phase = "new"
  /\ contextPackages = <<>>
  /\ normalizedRootPackages = <<>>
  /\ indexCache = <<>>
  /\ fastIndex = <<>>
  /\ contentCache = <<>>
  /\ indexCacheSize = DefaultIndexCacheSize
  /\ fastIndexSize = DefaultFastIndexSize
  /\ contentCacheSize = DefaultContentCacheSize
  /\ queries = 0
  /\ query = NoQuery
  /\ candidates = <<>>
  /\ ret = NoRet
  /\ visited = <<>>
  /\ stack = <<>>

NextCreateFault == Create \/ CreateFails

SpecCreateFault == InitCreateFault /\ [][NextCreateFault]_vars

SpecCtx == InitCtx /\ [][NextCtx]_vars

----------------------------------------------------------------------------
(* expandPackageDependencies, call by call.  The traversal of                *)
(* _collectDependencies suspends at every getDependencies and at every       *)
(* recursive visit; stack holds the visit() calls that have not returned,    *)
(* the innermost last, and visited is the Set in insertion order.            *)

\* A call of visit(p): before its visited check, or in its loop with todo left.
Frame(p) == [pkg |-> p, entered |-> FALSE, todo |-> {}]

Running == ret.op = "expandPackageDependencies" /\ ret.state = "running"

Top == stack[Len(stack)]

Pop == SubSeq(stack, 1, Len(stack) - 1)

\* expandPackageDependencies(pkg) is called: visit(pkgObj) begins.
ExpandBegin(p) ==
  /\ phase = "ready"
  /\ ret = NoRet
  /\ visited' = <<>>
  /\ stack' = <<Frame(p)>>
  /\ ret' = [op |-> "expandPackageDependencies", pkg |-> p, state |-> "running"]
  /\ UNCHANGED <<deps, pkgFiles, skipExamples, callerFilter, fault, fpiCalls, inflight, fetches, context, phase,
                 contextPackages,
                 normalizedRootPackages, indexCache, fastIndex, contentCache,
                 indexCacheSize, fastIndexSize, contentCacheSize, queries, query, candidates>>

\* visit(p) up to its await of getDependencies: a visited key returns at once.
VisitEnter ==
  /\ Running /\ stack # <<>> /\ ~Top.entered
  /\ IF PkgKey(Top.pkg) \in Range(visited)
     THEN /\ stack' = Pop
          /\ UNCHANGED visited
     ELSE /\ visited' = Append(visited, PkgKey(Top.pkg))
          /\ stack' = [stack EXCEPT ![Len(stack)] = [pkg |-> Top.pkg, entered |-> TRUE, todo |-> deps[Top.pkg]]]
  /\ UNCHANGED <<deps, pkgFiles, skipExamples, callerFilter, fault, fpiCalls, inflight, fetches, context, phase,
                 contextPackages,
                 normalizedRootPackages, indexCache, fastIndex, contentCache,
                 indexCacheSize, fastIndexSize, contentCacheSize, queries, query, candidates, ret>>

\* One round of the loop over Object.entries(deps), in whatever order the
\* manifest lists them: a skipped dependency is passed over, any other is visited.
VisitNext ==
  /\ Running /\ stack # <<>> /\ Top.entered
  /\ \E d \in Top.todo :
       LET rest == [stack EXCEPT ![Len(stack)].todo = Top.todo \ {d}]
       IN  stack' = IF SkipDependency(d) THEN rest
                    ELSE Append(rest, Frame(d))
  /\ UNCHANGED <<deps, pkgFiles, skipExamples, callerFilter, fault, fpiCalls, inflight, fetches, context, phase,
                 contextPackages,
                 normalizedRootPackages, indexCache, fastIndex, contentCache,
                 indexCacheSize, fastIndexSize, contentCacheSize, queries, query, candidates, ret,
                 visited>>

\* The loop of visit(p) is over: the call returns.
VisitReturn ==
  /\ Running /\ stack # <<>> /\ Top.entered /\ Top.todo = {}
  /\ stack' = Pop
  /\ UNCHANGED <<deps, pkgFiles, skipExamples, callerFilter, fault, fpiCalls, inflight, fetches, context, phase,
                 contextPackages,
                 normalizedRootPackages, indexCache, fastIndex, contentCache,
                 indexCacheSize, fastIndexSize, contentCacheSize, queries, query, candidates, ret,
                 visited>>

\* visit(pkgObj) has returned: the keys are turned into identifiers and sorted.
ExpandEnd ==
  /\ Running /\ stack = <<>>
  /\ ret' = [op |-> "expandPackageDependencies", pkg |-> ret.pkg, state |-> "done",
             value |-> sortPackages([i \in DOMAIN visited |-> toPackageObject(visited[i])])]
  /\ UNCHANGED <<deps, pkgFiles, skipExamples, callerFilter, fault, fpiCalls, inflight, fetches, context, phase,
                 contextPackages,
                 normalizedRootPackages, indexCache, fastIndex, contentCache,
                 indexCacheSize, fastIndexSize, contentCacheSize, queries, query, candidates,
                 visited, stack>>

ExpandStep == VisitEnter \/ VisitNext \/ VisitReturn \/ ExpandEnd

\* An instance created for a context of at most one root.
InitExpand ==
  /\ deps \in GraphsOver(CtxPackages, MaxEdges)
  /\ pkgFiles = NoFiles(CtxPackages)
  /\ skipExamples \in BOOLEAN
  /\ callerFilter = NoQuery
  /\ fpiCalls = <<>>
  /\ fault = NoFault
  /\ inflight = <<>>
  /\ fetches = <<>>
  /\ context \in SeqsUpTo(CtxPackages, 1)
  /\ phase = "ready"
  /\ contextPackages = loadContext(context).contextPackages
  /\ normalizedRootPackages = loadContext(context).normalizedRootPackages
  /\ indexCache = <<>>
  /\ fastIndex = <<>>
  /\ contentCache = <<>>
  /\ indexCacheSize = DefaultIndexCacheSize
  /\ fastIndexSize = DefaultFastIndexSize
  /\ contentCacheSize = DefaultContentCacheSize
  /\ queries = 0
  /\ query = NoQuery
  /\ candidates = <<>>
  /\ ret = NoRet
  /\ visited = <<>>
  /\ stack = <<>>

NextExpand == (\E p \in CtxPackages : ExpandBegin(p)) \/ ExpandStep

\* A call that was made runs on: every collaborator call returns.
SpecExpand == InitExpand /\ [][NextExpand]_vars /\ WF_vars(ExpandStep)

----------------------------------------------------------------------------
(* JavaScript values.  An index entry, a document and a filter are functions *)
(* from field names to strings, a missing field being outside the domain.    *)
(* A value in a numeric position is <<"number", n>>, NaN or NumUndefined.    *)

\* obj[k] is truthy: the field is there and is not the empty string
Truthy(obj, k) == k \in DOMAIN obj /\ obj[k] # ""

Num(n) == <<"number", n>>
NaN == <<"NaN">>
NumUndefined == <<"undefined">>

IsNum(x) == Len(x) = 2

\* x !== y on numeric values: NaN differs from everything, itself included
NumNotEqual(x, y) == x = NaN \/ y = NaN \/ x # y

\* x - y: NaN unless both are numbers
NumMinus(x, y) == IF IsNum(x) /\ IsNum(y) THEN Num(x[2] - y[2]) ELSE NaN

\* \d+
IsDigits(s) == s # "" /\ \A i \in 1..Len(s) : Ch(s, i) \in Digits

\* The number a string of digits denotes, read up to its n-th character.
RECURSIVE DigitsValue(_, _)
DigitsValue(s, n) ==
  IF n = 0 THEN 0
  ELSE 10 * DigitsValue(s, n - 1) + (CodeOf[Ch(s, n)] - CodeOf["0"])

\* Number(s) for the strings a version is made of
ToNumber(s) ==
  IF s = "" THEN Num(0)
  ELSE IF IsDigits(s) THEN Num(DigitsValue(s, Len(s)))
  ELSE NaN

StartsWith(s, pre) == Len(s) >= Len(pre) /\ SubSeq(s, 1, Len(pre)) = pre

EndsWith(s, suf) == Len(s) >= Len(suf) /\ SubSeq(s, Len(s) - Len(suf) + 1, Len(s)) = suf

\* /^<pre>\d+<suf>$/.test(s), pre and suf being literal text
MatchesDigitsBetween(s, pre, suf) ==
  /\ Len(s) > Len(pre) + Len(suf)
  /\ StartsWith(s, pre)
  /\ EndsWith(s, suf)
  /\ IsDigits(SubSeq(s, Len(pre) + 1, Len(s) - Len(suf)))

\* The number of digits s ends with.
TrailingDigits(s) ==
  Cardinality({n \in 1..Len(s) : IsDigits(SubSeq(s, Len(s) - n + 1, Len(s)))})

----------------------------------------------------------------------------
(* utils.ts: the filter *)

\* normalizePipedFilter: the first of url, name, id that holds a pipe is cut at
\* the pipe and its right part becomes the version.
PipedKeys == <<"url", "name", "id">>

IsPiped(filter, key) == key \in DOMAIN filter /\ Includes(filter[key], "|")

\* A normalization that keeps the version the filter came with.
normalizePipedFilter_KeepVersion(filter) ==
  IF \A i \in DOMAIN PipedKeys : ~IsPiped(filter, PipedKeys[i]) THEN filter
  ELSE LET i == CHOOSE k \in DOMAIN PipedKeys :
                  /\ IsPiped(filter, PipedKeys[k])
                  /\ \A j \in 1..(k - 1) : ~IsPiped(filter, PipedKeys[j])
           key == PipedKeys[i]
           parts == Split(filter[key], "|")
       IN  [k \in DOMAIN filter \cup {"version"} |->
              IF k = key THEN parts[1]
              ELSE IF k = "version" /\ "version" \notin DOMAIN filter THEN parts[2]
              ELSE filter[k]]

\* A normalization that splits the piped value at its last pipe.
normalizePipedFilter_AtLastPipe(filter) ==
  IF \A i \in DOMAIN PipedKeys : ~IsPiped(filter, PipedKeys[i]) THEN filter
  ELSE LET i == CHOOSE k \in DOMAIN PipedKeys :
                  /\ IsPiped(filter, PipedKeys[k])
                  /\ \A j \in 1..(k - 1) : ~IsPiped(filter, PipedKeys[j])
           key == PipedKeys[i]
           val == filter[key]
           last == CHOOSE n \in 1..Len(val) :
                     Ch(val, n) = "|" /\ \A m \in (n + 1)..Len(val) : Ch(val, m) # "|"
       IN  [k \in DOMAIN filter \cup {"version"} |->
              IF k = key THEN SubSeq(val, 1, last - 1)
              ELSE IF k = "version" THEN SubSeq(val, last + 1, Len(val))
              ELSE filter[k]]

normalizePipedFilter(filter) ==
  IF \A i \in DOMAIN PipedKeys : ~IsPiped(filter, PipedKeys[i]) THEN filter
  ELSE LET i == CHOOSE k \in DOMAIN PipedKeys :
                  /\ IsPiped(filter, PipedKeys[k])
                  /\ \A j \in 1..(k - 1) : ~IsPiped(filter, PipedKeys[j])
           key == PipedKeys[i]
           parts == Split(filter[key], "|")
       IN  [k \in DOMAIN filter \cup {"version"} |->
              IF k = key THEN parts[1]
              ELSE IF k = "version" THEN parts[2]
              ELSE filter[k]]

\* Objects: the heap is the sequence of the objects allocated, an object
\* reference is a position in it.

\* A copy that is the object itself: const newFilter = filter
Spread_SameObject(heap, obj) == [heap |-> heap, ref |-> obj]

\* { ...obj }: a new object with the fields of obj
Spread(heap, obj) == [heap |-> Append(heap, heap[obj]), ref |-> Len(heap) + 1]

\* obj[key] = value
Assign(heap, obj, key, value) ==
  [heap EXCEPT ![obj] = [k \in DOMAIN heap[obj] \cup {key} |->
                           IF k = key THEN value ELSE heap[obj][k]]]

\* normalizePipedFilter on the object filter of the heap: the heap it leaves
\* and the object it returns.  Its reads are of filter, its writes of newFilter.
normalizePipedFilterOn(heap, filter) ==
  LET newFilter == Spread(heap, filter)
      val(key) == heap[filter][key]
  IN  IF \A i \in DOMAIN PipedKeys : ~IsPiped(heap[filter], PipedKeys[i]) THEN newFilter
      ELSE LET i == CHOOSE k \in DOMAIN PipedKeys :
                      /\ IsPiped(heap[filter], PipedKeys[k])
                      /\ \A j \in 1..(k - 1) : ~IsPiped(heap[filter], PipedKeys[j])
               key == PipedKeys[i]
               parts == Split(val(key), "|")
           IN  [heap |-> Assign(Assign(newFilter.heap, newFilter.ref, key, parts[1]),
                                newFilter.ref, "version", parts[2]),
                ref |-> newFilter.ref]

\* The caller's filter object after a call that normalizes it: lookupMeta,
\* and lookup, resolve and resolveMeta through it, hand the object to
\* normalizePipedFilter and read it afterwards; none of them, nor
\* matchesFilter, getAllFastIndexKeys and tryResolveDuplicates, assigns to it.
CallerFilterAfter(filter) == normalizePipedFilterOn(<<filter>>, 1).heap[1]

\* The object the call matches with.
NormalizedCopy(filter) ==
  LET after == normalizePipedFilterOn(<<filter>>, 1) IN after.heap[after.ref]

\* matchesFilter: every field of the filter but `package` is on the entry with
\* the same value.
matchesFilter(entry, filter) ==
  \A key \in DOMAIN filter \ {"package"} : key \in DOMAIN entry /\ entry[key] = filter[key]

\* getAllFastIndexKeys: the key shapes an entry (or a filter) has the fields for
getAllFastIndexKeys(entry) ==
  LET has(k) == Truthy(entry, k)
      pkg == "pkg:" \o entry["__packageId"] \o "#" \o entry["__packageVersion"]
      rt == "resourceType:" \o entry["resourceType"]
      url == "url:" \o entry["url"]
      id == "id:" \o entry["id"]
      name == "name:" \o entry["name"]
      version == "version:" \o entry["version"]
      derivation == "derivation:" \o entry["derivation"]
      when(c, key) == IF c THEN <<key>> ELSE <<>>
  IN  when(has("__packageId") /\ has("__packageVersion") /\ has("resourceType") /\ has("id") /\ has("derivation"),
           pkg \o "|" \o rt \o "|" \o id \o "|" \o derivation)
   \o when(has("__packageId") /\ has("__packageVersion") /\ has("resourceType") /\ has("url"),
           pkg \o "|" \o rt \o "|" \o url)
   \o when(has("resourceType") /\ has("url") /\ has("version"), rt \o "|" \o url \o "|" \o version)
   \o when(has("resourceType") /\ has("url"), rt \o "|" \o url)
   \o when(has("url") /\ has("version"), url \o "|" \o version)
   \o when(has("url"), url)
   \o when(has("resourceType") /\ has("name") /\ has("version"), rt \o "|" \o name \o "|" \o version)
   \o when(has("resourceType") /\ has("id") /\ has("version"), rt \o "|" \o id \o "|" \o version)
   \o when(has("resourceType") /\ has("name"), rt \o "|" \o name)
   \o when(has("resourceType") /\ has("id"), rt \o "|" \o id)

----------------------------------------------------------------------------
(* utils.ts: tryResolveDuplicates *)

isCorePackage(packageId) == MatchesDigitsBetween(packageId, "hl7.fhir.r", ".core")

isTerminologyPackage(packageId) == MatchesDigitsBetween(packageId, "hl7.terminology.r", "")

isExtensionsPackage(packageId) == MatchesDigitsBetween(packageId, "hl7.fhir.uv.extensions.r", "")

isImplicitPackage(packageId) == isTerminologyPackage(packageId) \/ isExtensionsPackage(packageId)

isTerminologyResource(resourceType) == resourceType \in {"ValueSet", "ConceptMap", "CodeSystem"}

\* packageId.match(/\.r(\d+)$/): the number after the last ".r", or 0
extractFhirVersionFromImplicitPackageId(packageId) ==
  LET n == TrailingDigits(packageId)
      len == Len(packageId)
  IN  IF n >= 1 /\ len >= n + 2 /\ SubSeq(packageId, len - n - 1, len - n) = ".r"
      THEN DigitsValue(SubSeq(packageId, len - n + 1, len), n)
      ELSE 0

\* parse(v) of compareSemver: the text before the first '-', split at '.'
SemverParts(v) ==
  LET parts == Split(Split(v, "-")[1], ".")
  IN  [i \in 1..3 |-> IF i <= Len(parts) THEN ToNumber(parts[i]) ELSE NumUndefined]

\* compareSemver on version strings, the empty string being the falsy one
compareSemver(a, b) ==
  IF a = "" /\ b = "" THEN Num(0)
  ELSE IF a = "" THEN Num(-1)
  ELSE IF b = "" THEN Num(1)
  ELSE LET aParts == SemverParts(a)
           bParts == SemverParts(b)
       IN  IF NumNotEqual(aParts[1], bParts[1]) THEN NumMinus(aParts[1], bParts[1])
           ELSE IF NumNotEqual(aParts[2], bParts[2]) THEN NumMinus(aParts[2], bParts[2])
           ELSE IF NumNotEqual(aParts[3], bParts[3]) THEN NumMinus(aParts[3], bParts[3])
           ELSE Num(0)

\* A comparator result that tells sort to put its first argument first.
Negative(r) == IsNum(r) /\ r[2] < 0

\* A comparator that compares the package versions as text.
ImplicitCompare_ByText(a, b) ==
  IF a["__packageVersion"] = b["__packageVersion"]
  THEN Num(extractFhirVersionFromImplicitPackageId(b["__packageId"])
           - extractFhirVersionFromImplicitPackageId(a["__packageId"]))
  ELSE IF StrLess(b["__packageVersion"], a["__packageVersion"]) THEN Num(-1) ELSE Num(1)

\* The comparator of the sort of steps 4 and 5: package version descending,
\* then FHIR version descending.
ImplicitCompare(a, b) ==
  LET versionComparison == compareSemver(b["__packageVersion"], a["__packageVersion"])
  IN  IF NumNotEqual(versionComparison, Num(0)) THEN versionComparison
      ELSE Num(extractFhirVersionFromImplicitPackageId(b["__packageId"])
               - extractFhirVersionFromImplicitPackageId(a["__packageId"]))

\* matches.sort(comparator), the first n matches (a stable sort)
RECURSIVE SortImplicitFirst(_, _)
SortImplicitFirst(matches, n) ==
  IF n = 0 THEN <<>>
  ELSE TheOne({
         LET x == matches[n]
             k == Cardinality({i \in DOMAIN front :
                                 \A j \in 1..i : ~Negative(ImplicitCompare(x, front[j]))})
         IN  SubSeq(front, 1, k) \o <<x>> \o SubSeq(front, k + 1, Len(front))
         : front \in {SortImplicitFirst(matches, n - 1)}})

\* versions.slice().sort(compareSemver), the first n versions
RECURSIVE SortVersionsFirst(_, _)
SortVersionsFirst(versions, n) ==
  IF n = 0 THEN <<>>
  ELSE TheOne({
         LET x == versions[n]
             k == Cardinality({i \in DOMAIN front :
                                 \A j \in 1..i : ~Negative(compareSemver(x, front[j]))})
         IN  SubSeq(front, 1, k) \o <<x>> \o SubSeq(front, k + 1, Len(front))
         : front \in {SortVersionsFirst(versions, n - 1)}})

WordChars ==
  Digits \cup {"_"} \cup
  {"a","b","c","d","e","f","g","h","i","j","k","l","m","n","o","p","q","r","s","t","u","v","w","x","y","z"} \cup
  {"A","B","C","D","E","F","G","H","I","J","K","L","M","N","O","P","Q","R","S","T","U","V","W","X","Y","Z"}

\* /^\d+\.\d+\.\d+(-[\w.-]+)?$/.test(v)
IsSemver(v) ==
  LET dashes == {i \in 1..Len(v) : Ch(v, i) = "-"}
      dash == IF dashes = {} THEN Len(v) + 1 ELSE CHOOSE i \in dashes : \A j \in dashes : i <= j
      parts == Split(SubSeq(v, 1, dash - 1), ".")
  IN  /\ Len(parts) = 3
      /\ \A i \in 1..3 : IsDigits(parts[i])
      /\ dashes # {} =>
           /\ dash < Len(v)
           /\ \A i \in (dash + 1)..Len(v) : Ch(v, i) \in WordChars \cup {".", "-"}

\* A chain without its first step.
PackageFilterMatches_Skipped(matches, filter) == <<>>

\* Step 1: the matches of the package the filter names, if it names one.
PackageFilterMatches(matches, filter) ==
  IF Truthy(filter, "package")
  THEN LET pkgIdentifier == toPackageObject(filter["package"])
       IN  SelectSeq(matches, LAMBDA m : /\ m["__packageId"] = pkgIdentifier.id
                                         /\ m["__packageVersion"] = pkgIdentifier.version)
  ELSE <<>>

\* A step 2 that knows no core-bias.
AfterImplicitOverCore_NoCoreBias(matches) ==
  LET implicitMatches == SelectSeq(matches, LAMBDA m : isImplicitPackage(m["__packageId"]))
  IN  IF Len(implicitMatches) > 0
      THEN [return |-> FALSE, matches |-> implicitMatches]
      ELSE [return |-> FALSE, matches |-> matches]

\* A step 2 that prefers the single core match whatever the others are.
AfterImplicitOverCore_CoreFirst(matches) ==
  LET coreMatches == SelectSeq(matches, LAMBDA m : isCorePackage(m["__packageId"]))
      implicitMatches == SelectSeq(matches, LAMBDA m : isImplicitPackage(m["__packageId"]))
  IN  IF Len(coreMatches) = 1
      THEN [return |-> TRUE, matches |-> coreMatches]
      ELSE IF Len(implicitMatches) > 0
      THEN [return |-> FALSE, matches |-> implicitMatches]
      ELSE [return |-> FALSE, matches |-> matches]

\* Step 2: implicit-over-core and core-bias.  `return` tells that the chain
\* returns these matches at once.
AfterImplicitOverCore(matches) ==
  LET coreMatches == SelectSeq(matches, LAMBDA m : isCorePackage(m["__packageId"]))
      implicitMatches == SelectSeq(matches, LAMBDA m : isImplicitPackage(m["__packageId"]))
  IN  IF Len(implicitMatches) > 0 /\ Len(coreMatches) > 0
      THEN [return |-> FALSE, matches |-> implicitMatches]
      ELSE IF Len(coreMatches) = 1 /\ Len(implicitMatches) = 0
      THEN [return |-> TRUE, matches |-> coreMatches]
      ELSE IF Len(implicitMatches) > 0 /\ Len(coreMatches) = 0
      THEN [return |-> FALSE, matches |-> implicitMatches]
      ELSE [return |-> FALSE, matches |-> matches]

AllImplicit(matches) == \A i \in DOMAIN matches : isImplicitPackage(matches[i]["__packageId"])

\* A step 3 that prefers the terminology packages whatever the filter asks for.
AfterResourceTypeBias_TerminologyFirst(matches, filter) ==
  IF Len(matches) > 1 /\ AllImplicit(matches)
  THEN LET terminologyMatches == SelectSeq(matches, LAMBDA m : isTerminologyPackage(m["__packageId"]))
           extensionsMatches == SelectSeq(matches, LAMBDA m : isExtensionsPackage(m["__packageId"]))
       IN  IF Len(terminologyMatches) > 0 /\ Len(extensionsMatches) > 0
           THEN terminologyMatches
           ELSE matches
  ELSE matches

\* Step 3: resource type bias within implicit packages
AfterResourceTypeBias(matches, filter) ==
  IF Len(matches) > 1 /\ AllImplicit(matches)
  THEN LET terminologyMatches == SelectSeq(matches, LAMBDA m : isTerminologyPackage(m["__packageId"]))
           extensionsMatches == SelectSeq(matches, LAMBDA m : isExtensionsPackage(m["__packageId"]))
       IN  IF Len(terminologyMatches) > 0 /\ Len(extensionsMatches) > 0
           THEN IF Truthy(filter, "resourceType") /\ isTerminologyResource(filter["resourceType"])
                THEN terminologyMatches
                ELSE extensionsMatches
           ELSE matches
  ELSE matches

\* Step 6: semver resolution among versions of one package
SemverResolution(matches) ==
  IF \E i \in DOMAIN matches : ~(Truthy(matches[i], "version") /\ IsSemver(matches[i]["version"]))
  THEN <<>>
  ELSE IF Cardinality({matches[i]["__packageId"] : i \in DOMAIN matches}) # 1 THEN <<>>
  ELSE LET pkgId == matches[1]["__packageId"]
           versions == [i \in DOMAIN matches |-> matches[i]["version"]]
           sorted == SortVersionsFirst(versions, Len(versions))
           latest == sorted[Len(sorted)]
       IN  SelectSeq(matches, LAMBDA m : m["__packageId"] = pkgId /\ m["version"] = latest)

\* tryResolveDuplicates(matches, filter, fpi)
tryResolveDuplicates(matches, filter) ==
  IF Len(PackageFilterMatches(matches, filter)) = 1 THEN PackageFilterMatches(matches, filter)
  ELSE LET step2 == AfterImplicitOverCore(matches)
           step3 == AfterResourceTypeBias(step2.matches, filter)
       IN  IF step2.return THEN step2.matches
           ELSE IF Len(step3) > 1 /\ AllImplicit(step3)
           THEN <<SortImplicitFirst(step3, Len(step3))[1]>>
           ELSE SemverResolution(step3)

----------------------------------------------------------------------------
(* resolve / resolveMeta after their lookup *)

\* The keys of a filter in the order its object literal names them.
FilterKeyOrder ==
  <<"resourceType", "id", "url", "name", "version", "derivation", "package">>

\* "k":"v" of the first n keys of FilterKeyOrder that the filter has, joined by commas
RECURSIVE JsonMembers(_, _)
JsonMembers(filter, n) ==
  IF n = 0 THEN ""
  ELSE LET k == FilterKeyOrder[n]
           before == JsonMembers(filter, n - 1)
       IN  IF k \notin DOMAIN filter THEN before
           ELSE (IF before = "" THEN "" ELSE before \o ",")
                \o "\"" \o k \o "\":\"" \o filter[k] \o "\""

\* JSON.stringify(filter) of a filter whose values are strings
JSONstringify(filter) == "{" \o JsonMembers(filter, Len(FilterKeyOrder)) \o "}"

\* matches.map(m => `${m.__packageId}@${m.__packageVersion}`).join(', '), the first n
RECURSIVE MatchInfo(_, _)
MatchInfo(matches, n) ==
  IF n = 0 THEN ""
  ELSE (IF n = 1 THEN "" ELSE MatchInfo(matches, n - 1) \o ", ")
       \o matches[n]["__packageId"] \o "@" \o matches[n]["__packageVersion"]

NoMatchMessage(filter) ==
  "No matching resource found with filter: " \o JSONstringify(filter)

\* A message that does not tell the packages.
MultipleMatchesMessage_NoPackages(matches, filter) ==
  "Multiple matching resources found with filter: " \o JSONstringify(filter)

MultipleMatchesMessage(matches, filter) ==
  "Multiple matching resources found with filter: " \o JSONstringify(filter)
    \o ". Found in packages: " \o MatchInfo(matches, Len(matches))

\* A resolver that returns the first match when the chain leaves several.
ResolveOutcome_FirstOfMany(matches, filter) ==
  IF Len(matches) = 0 THEN [outcome |-> "NoMatchFound"]
  ELSE [outcome |-> "value", value |-> matches[1]]

\* A resolver that hands out the resolved match without the package it came
\* from.
ResolveOutcome_WithoutOwner(matches, filter) ==
  LET bare(m) == [k \in DOMAIN m \ {"__packageId", "__packageVersion"} |-> m[k]]
  IN  IF Len(matches) = 0
      THEN [outcome |-> "NoMatchFound", message |-> NoMatchMessage(filter)]
      ELSE IF Len(matches) > 1
      THEN LET resolved == tryResolveDuplicates(matches, filter)
           IN  IF Len(resolved) # 1
               THEN [outcome |-> "AmbiguousMatch",
                     message |-> MultipleMatchesMessage(matches, filter)]
               ELSE [outcome |-> "value", value |-> bare(resolved[1])]
      ELSE [outcome |-> "value", value |-> matches[1]]

\* What resolve and resolveMeta do with the matches of their lookup: the value
\* they return or the error they throw.
ResolveOutcome(matches, filter) ==
  IF Len(matches) = 0
  THEN [outcome |-> "NoMatchFound", message |-> NoMatchMessage(filter)]
  ELSE IF Len(matches) > 1
  THEN LET resolved == tryResolveDuplicates(matches, filter)
       IN  IF Len(resolved) # 1
           THEN [outcome |-> "AmbiguousMatch",
                 message |-> MultipleMatchesMessage(matches, filter)]
           ELSE [outcome |-> "value", value |-> resolved[1]]
  ELSE [outcome |-> "value", value |-> matches[1]]

----------------------------------------------------------------------------
(* The duplicate-resolution chain on its own: resolveMeta on the matches of  *)
(* a lookup, the matches being drawn from the entries below.                 *)

\* most matches a lookup hands to the chain
MaxMatches == 3

\* The packages that own the matches.
DupOwners ==
  {Pkg("hl7.fhir.r4.core", "4.0.1"),
   Pkg("hl7.terminology.r4", "5.0.0"),
   Pkg("hl7.terminology.r5", "6.0.0"),
   Pkg("hl7.fhir.uv.extensions.r4", "1.0.0"),
   Pkg("hl7.fhir.uv.sdc", "3.0.0"),
   Pkg("hl7.fhir.uv.sdc", "2.7.0")}

\* The document's own version: none, a strict semver, a date.
NoVersion == "(none)"
DupVersions == {NoVersion, "1.0.0", "2019-07"}

DupResourceTypes == {"ValueSet", "StructureDefinition"}

\* The index entry of the document in a package.
DupEntry(owner, rt, version) ==
  LET entry == [filename |-> "doc.json", resourceType |-> rt, id |-> "doc", url |-> "urn:doc",
                __packageId |-> owner.id, __packageVersion |-> owner.version]
  IN  IF version = NoVersion THEN entry ELSE ("version" :> version) @@ entry

\* The filter of the query: the url, with or without resourceType and package.
DupFilter(rt, pkg) ==
  LET byUrl == [url |-> "urn:doc"]
      byType == IF rt = NoVersion THEN byUrl ELSE ("resourceType" :> rt) @@ byUrl
  IN  IF pkg = NoVersion THEN byType ELSE ("package" :> pkg) @@ byType

\* Sequences of 2..n entries of distinct packages
MatchesUpTo(entries, n) ==
  {m \in UNION {[1..k -> entries] : k \in 2..n} :
     \A i, j \in DOMAIN m : i # j => Owner(m[i]) # Owner(m[j])}

ResolveCandidates ==
  /\ phase = "ready"
  /\ ret = NoRet
  /\ ret' = [op |-> "resolveMeta"] @@ ResolveOutcome(candidates, query)
  /\ callerFilter' = CallerFilterAfter(query)
  /\ UNCHANGED <<deps, pkgFiles, skipExamples, fault, fpiCalls, inflight, fetches, context, phase,
                 contextPackages,
                 normalizedRootPackages, indexCache, fastIndex, contentCache,
                 indexCacheSize, fastIndexSize, contentCacheSize, queries, query, candidates,
                 visited, stack>>

InitDup ==
  /\ deps = [p \in DupOwners |-> {}]
  /\ pkgFiles = NoFiles(DupOwners)
  /\ skipExamples = FALSE
  /\ callerFilter = NoQuery
  /\ fpiCalls = <<>>
  /\ fault = NoFault
  /\ inflight = <<>>
  /\ fetches = <<>>
  /\ context = <<>>
  /\ phase = "ready"
  /\ contextPackages = <<>>
  /\ normalizedRootPackages = <<>>
  /\ indexCache = <<>>
  /\ fastIndex = <<>>
  /\ contentCache = <<>>
  /\ indexCacheSize = DefaultIndexCacheSize
  /\ fastIndexSize = DefaultFastIndexSize
  /\ contentCacheSize = DefaultContentCacheSize
  /\ queries = 0
  /\ \E rt \in DupResourceTypes :
       /\ candidates \in MatchesUpTo({DupEntry(o, rt, v) : o \in DupOwners, v \in DupVersions}, MaxMatches)
       /\ query \in {DupFilter(t, p) : t \in {NoVersion, rt},
                                       p \in {NoVersion} \cup {PkgKey(o) : o \in DupOwners}}
  /\ ret = NoRet
  /\ visited = <<>>
  /\ stack = <<>>

NextDup == ResolveCandidates

SpecDup == InitDup /\ [][NextDup]_vars

----------------------------------------------------------------------------
(* lru-cache: a cache is the sequence of its [k, v] pairs, the least         *)
(* recently used first.                                                      *)

LruHas(cache, k) == \E i \in DOMAIN cache : cache[i].k = k

\* The value under a key the cache has.
LruPeek(cache, k) == cache[CHOOSE i \in DOMAIN cache : cache[i].k = k].v

\* get(k), its effect on the cache: the key becomes the most recently used
LruTouch(cache, k) ==
  IF LruHas(cache, k)
  THEN Append(SelectSeq(cache, LAMBDA e : e.k # k), [k |-> k, v |-> LruPeek(cache, k)])
  ELSE cache

\* set(k, v): the key becomes the most recently used, and the least recently
\* used key is evicted when the cache holds more than max keys.
LruSet(cache, max, k, v) ==
  LET added == Append(SelectSeq(cache, LAMBDA e : e.k # k), [k |-> k, v |-> v])
  IN  IF Len(added) > max THEN Tail(added) ELSE added

----------------------------------------------------------------------------
(* index.ts: lookupMeta *)

\* A stamp that takes the version from the id.
NewIndex_VersionFromId(pkg) ==
  [i \in DOMAIN pkgFiles[pkg] |->
     ("__packageId" :> pkg.id) @@ ("__packageVersion" :> pkg.id) @@ pkgFiles[pkg][i]]

\* rawIndex.map(file => ({...file, __packageId, __packageVersion}))
NewIndex(pkg) ==
  [i \in DOMAIN pkgFiles[pkg] |->
     ("__packageId" :> pkg.id) @@ ("__packageVersion" :> pkg.version) @@ pkgFiles[pkg][i]]

\* the pairs <<key, file>> in the order _buildFastIndex meets them
RECURSIVE KeyedFiles(_, _)
KeyedFiles(index, n) ==
  IF n = 0 THEN <<>>
  ELSE KeyedFiles(index, n - 1) \o
       [j \in DOMAIN getAllFastIndexKeys(index[n]) |-> <<getAllFastIndexKeys(index[n])[j], index[n]>>]

\* _buildFastIndex after its first n pairs: the bucket of the key is read,
\* the file is pushed, the bucket is written back.
RECURSIVE FastIndexAfter(_, _, _)
FastIndexAfter(cache, pairs, n) ==
  IF n = 0 THEN cache
  ELSE TheOne({
         LET key == pairs[n][1]
             entries == IF LruHas(before, key) THEN LruPeek(before, key) ELSE <<>>
         IN  LruSet(before, fastIndexSize, key, Append(entries, pairs[n][2]))
         : before \in {FastIndexAfter(cache, pairs, n - 1)}})

buildFastIndex(cache, index) ==
  LET pairs == KeyedFiles(index, Len(index)) IN FastIndexAfter(cache, pairs, Len(pairs))

\* fastKeys.flatMap(k => this.fastIndex.get(k) ?? []), the first n keys
RECURSIVE FastCandidates(_, _, _)
FastCandidates(cache, fastKeys, n) ==
  IF n = 0 THEN <<>>
  ELSE FastCandidates(cache, fastKeys, n - 1) \o
       (IF LruHas(cache, fastKeys[n]) THEN LruPeek(cache, fastKeys[n]) ELSE <<>>)

\* the fast index after the get of the first n keys
RECURSIVE TouchedBy(_, _, _)
TouchedBy(cache, fastKeys, n) ==
  IF n = 0 THEN cache
  ELSE TheOne({LruTouch(before, fastKeys[n]) : before \in {TouchedBy(cache, fastKeys, n - 1)}})

compositeKey(entry) ==
  entry["filename"] \o "|" \o entry["__packageId"] \o "|" \o entry["__packageVersion"]

\* A resultMap that holds whatever it is given: a list.
resultMapHas_Never(results, key) == FALSE

\* resultMap.has(compositeKey)
resultMapHas(results, key) == \E i \in DOMAIN results : compositeKey(results[i]) = key

\* resultMap after the first n candidates of a package
RECURSIVE ResultsAfter(_, _, _, _, _)
ResultsAfter(results, cands, n, filter, allowed) ==
  IF n = 0 THEN results
  ELSE TheOne({
         LET entry == cands[n]
         IN  IF allowed.restricted /\ PkgKey(Owner(entry)) \notin allowed.keys THEN before
             ELSE IF ~matchesFilter(entry, filter) THEN before
             ELSE IF resultMapHas(before, compositeKey(entry)) THEN before
             ELSE Append(before, entry)
         : before \in {ResultsAfter(results, cands, n - 1, filter, allowed)}})

\* One round of the loop over the packages of the context.  st holds the two
\* caches and resultMap.
LookupInPackage(st, pkg, filter, allowed) ==
  IF st.error # "" THEN st
  ELSE IF allowed.restricted /\ PkgKey(pkg) \notin allowed.keys THEN st
  ELSE IF /\ ~LruHas(st.indexCache, PkgKey(pkg))
          /\ FaultHits({[call |-> c, pkg |-> pkg] : c \in {"install", "getPackageIndexFile"}})
  THEN [st EXCEPT !.error = fault.error]
  ELSE LET pkgKey == PkgKey(pkg)
           cached == LruHas(st.indexCache, pkgKey)
           index == IF cached THEN LruPeek(st.indexCache, pkgKey) ELSE NewIndex(pkg)
           indexed == IF cached THEN LruTouch(st.indexCache, pkgKey)
                      ELSE LruSet(st.indexCache, indexCacheSize, pkgKey, index)
           built == IF cached THEN st.fastIndex ELSE buildFastIndex(st.fastIndex, index)
           fastKeys == getAllFastIndexKeys(filter)
           fastCandidates == FastCandidates(built, fastKeys, Len(fastKeys))
           cands == IF Len(fastCandidates) > 0 THEN fastCandidates ELSE index
       IN  [indexCache |-> indexed,
            fastIndex |-> TouchedBy(built, fastKeys, Len(fastKeys)),
            results |-> ResultsAfter(st.results, cands, Len(cands), filter, allowed),
            error |-> ""]

\* the loop of lookupMeta after the first n packages of the context
RECURSIVE LookupAfter(_, _, _, _)
LookupAfter(st, n, filter, allowed) ==
  IF n = 0 THEN st
  ELSE TheOne({LookupInPackage(before, contextPackages[n], filter, allowed)
               : before \in {LookupAfter(st, n - 1, filter, allowed)}})

\* allowedPackages: the closure of the package of the filter, if it names one
AllowedPackages(filter) ==
  IF Truthy(filter, "package")
  THEN [restricted |-> TRUE, keys |-> collectDependencies(toPackageObject(filter["package"]))]
  ELSE [restricted |-> FALSE, keys |-> {}]

\* the collaborator calls that compute allowedPackages
AllowedPackagesCalls(filter) ==
  IF Truthy(filter, "package")
  THEN {[call |-> "toPackageObject", pkg |-> toPackageObject(filter["package"])]}
       \cup {[call |-> "getDependencies", pkg |-> KeyToPkg(key)] :
               key \in collectDependencies(toPackageObject(filter["package"]))}
  ELSE {}

\* lookupMeta(filter): the matches it returns and the caches it leaves, or
\* the error it rejects with (error is "" when it returns)
lookupMeta(filter) ==
  LET normalizedFilter == normalizePipedFilter(filter)
      entered == [indexCache |-> indexCache, fastIndex |-> fastIndex, results |-> <<>>,
                  error |-> ""]
  IN  IF FaultHits(AllowedPackagesCalls(normalizedFilter))
      THEN [entered EXCEPT !.error = fault.error]
      ELSE LookupAfter(entered, Len(contextPackages), normalizedFilter,
                       AllowedPackages(normalizedFilter))

----------------------------------------------------------------------------
(* Bounds of the queries *)

\* most queries made on an instance
MaxQueries == 2
\* most dependency links between the packages of the queries
MaxLookupEdges == 1
\* most entries in config.context of an instance that is queried
MaxLookupContext == 1
\* most files in a package
MaxFiles == 2
\* a cache size under which keys are evicted, and one under which none is
SmallCache == 1
LargeCache == 64

----------------------------------------------------------------------------
(* index.ts: lookup, resolve, resolveMeta *)

\* path.join(getPackageDirPath(owner), 'package', entry.filename)
filePath(entry) == PkgKey(Owner(entry)) \o "/package/" \o entry["filename"]

\* loadJson(filePath): the document the index entry was made from
FileContent(entry) ==
  [k \in DOMAIN entry \ {"filename", "__packageId", "__packageVersion"} |-> entry[k]]

\* An enrichment that leaves the filename out.
Enriched_NoFilename(entry) ==
  FileContent(entry) @@ ("__packageId" :> entry["__packageId"])
                     @@ ("__packageVersion" :> entry["__packageVersion"])

\* { __packageId, __packageVersion, __filename, ...content }
Enriched(entry) ==
  FileContent(entry) @@ ("__packageId" :> entry["__packageId"])
                     @@ ("__packageVersion" :> entry["__packageVersion"])
                     @@ ("__filename" :> entry["filename"])

\* contentCache after the documents of the first n entries were fetched
RECURSIVE ContentCacheAfter(_, _, _)
ContentCacheAfter(cache, meta, n) ==
  IF n = 0 THEN cache
  ELSE TheOne({
         IF FaultHits({[call |-> "getPackageDirPath", pkg |-> Owner(meta[n])]}) THEN before
         ELSE IF LruHas(before, filePath(meta[n])) THEN LruTouch(before, filePath(meta[n]))
         ELSE IF FaultHits({[call |-> "loadJson", pkg |-> Owner(meta[n])]}) THEN before
         ELSE LruSet(before, contentCacheSize, filePath(meta[n]), Enriched(meta[n]))
         : before \in {ContentCacheAfter(cache, meta, n - 1)}})

\* the entries whose callback in lookup rejects: _getFilePath fails, or the
\* document is not cached and loadJson fails
RejectedDocuments(cache, meta) ==
  {n \in DOMAIN meta :
     \/ FaultHits({[call |-> "getPackageDirPath", pkg |-> Owner(meta[n])]})
     \/ /\ ~LruHas(ContentCacheAfter(cache, meta, n - 1), filePath(meta[n]))
        /\ FaultHits({[call |-> "loadJson", pkg |-> Owner(meta[n])]})}

\* the error lookup rejects with for the entries of its lookupMeta ("" when
\* it returns)
DocumentsError(cache, meta) ==
  IF RejectedDocuments(cache, meta) = {} THEN "" ELSE fault.error

\* An operation that returns the matches it had found when a call fails.
Rejected_ReturnsPartial(op, error, discarded) == [op |-> op, value |-> discarded]

\* an operation that rejects; discarded: the matches it had found
Rejected(op, error, discarded) ==
  [op |-> op, outcome |-> "error", error |-> error, discarded |-> discarded]

\* the documents lookup returns for the entries of lookupMeta
Documents(cache, meta) ==
  [n \in DOMAIN meta |->
     LET before == ContentCacheAfter(cache, meta, n - 1)
     IN  IF LruHas(before, filePath(meta[n])) THEN LruPeek(before, filePath(meta[n]))
         ELSE Enriched(meta[n])]

\* whether the document of each entry was in the content cache when lookup
\* asked for it
ContentHits(cache, meta) ==
  [n \in DOMAIN meta |-> LruHas(ContentCacheAfter(cache, meta, n - 1), filePath(meta[n]))]

Lookup(filter) ==
  /\ phase = "ready"
  /\ queries < MaxQueries
  /\ queries' = queries + 1
  /\ \E found \in {lookupMeta(filter)} :
       /\ indexCache' = found.indexCache
       /\ fastIndex' = found.fastIndex
       /\ contentCache' = IF found.error # "" THEN contentCache
                         ELSE ContentCacheAfter(contentCache, found.results,
                                                Len(found.results))
       /\ candidates' = found.results
       /\ ret' = IF found.error # "" THEN Rejected("lookup", found.error, found.results)
                 ELSE IF DocumentsError(contentCache, found.results) # ""
                 THEN Rejected("lookup", DocumentsError(contentCache, found.results),
                               found.results)
                 ELSE [op |-> "lookup", value |-> Documents(contentCache, found.results),
                       hits |-> ContentHits(contentCache, found.results)]
  /\ query' = filter
  /\ callerFilter' = CallerFilterAfter(filter)
  /\ UNCHANGED <<deps, pkgFiles, skipExamples, fault, fpiCalls, inflight, fetches, context, phase,
                 contextPackages,
                 normalizedRootPackages, indexCacheSize, fastIndexSize,
                 contentCacheSize, visited, stack>>

LookupMeta(filter) ==
  /\ phase = "ready"
  /\ queries < MaxQueries
  /\ queries' = queries + 1
  /\ \E found \in {lookupMeta(filter)} :
       /\ indexCache' = found.indexCache
       /\ fastIndex' = found.fastIndex
       /\ candidates' = found.results
       /\ ret' = IF found.error # "" THEN Rejected("lookupMeta", found.error, found.results)
                 ELSE [op |-> "lookupMeta", value |-> found.results]
  /\ query' = filter
  /\ callerFilter' = CallerFilterAfter(filter)
  /\ UNCHANGED <<deps, pkgFiles, skipExamples, fault, fpiCalls, inflight, fetches, context, phase,
                 contextPackages,
                 normalizedRootPackages, contentCache, indexCacheSize, fastIndexSize,
                 contentCacheSize, visited, stack>>

ResolveMeta(filter) ==
  /\ phase = "ready"
  /\ queries < MaxQueries
  /\ queries' = queries + 1
  /\ \E found \in {lookupMeta(filter)} :
       /\ indexCache' = found.indexCache
       /\ fastIndex' = found.fastIndex
       /\ candidates' = found.results
       /\ ret' = IF found.error # "" THEN Rejected("resolveMeta", found.error, found.results)
                 ELSE [op |-> "resolveMeta"] @@ ResolveOutcome(found.results, filter)
  /\ query' = filter
  /\ callerFilter' = CallerFilterAfter(filter)
  /\ UNCHANGED <<deps, pkgFiles, skipExamples, fault, fpiCalls, inflight, fetches, context, phase,
                 contextPackages,
                 normalizedRootPackages, contentCache, indexCacheSize, fastIndexSize,
                 contentCacheSize, visited, stack>>

Resolve(filter) ==
  /\ phase = "ready"
  /\ queries < MaxQueries
  /\ queries' = queries + 1
  /\ \E found \in {lookupMeta(filter)} :
       \E matches \in {Documents(contentCache, found.results)} :
         /\ indexCache' = found.indexCache
         /\ fastIndex' = found.fastIndex
         /\ contentCache' = IF found.error # "" THEN contentCache
                           ELSE ContentCacheAfter(contentCache, found.results,
                                                  Len(found.results))
         /\ candidates' = matches
         /\ ret' = IF found.error # "" THEN Rejected("resolve", found.error, found.results)
                   ELSE IF DocumentsError(contentCache, found.results) # ""
                   THEN Rejected("resolve", DocumentsError(contentCache, found.results),
                                 found.results)
                   ELSE [op |-> "resolve"] @@ ResolveOutcome(matches, filter)
  /\ query' = filter
  /\ callerFilter' = CallerFilterAfter(filter)
  /\ UNCHANGED <<deps, pkgFiles, skipExamples, fault, fpiCalls, inflight, fetches, context, phase,
                 contextPackages,
                 normalizedRootPackages, indexCacheSize, fastIndexSize,
                 contentCacheSize, visited, stack>>

----------------------------------------------------------------------------
(* The inputs of the queries *)

LookupPackages ==
  {Pkg("hl7.fhir.r4.core", "4.0.1"),
   Pkg("hl7.terminology.r4", "5.0.0"),
   Pkg("hl7.fhir.uv.sdc", "3.0.0")}

\* The files of a document that every package publishes: a package index
\* lists the first files of this list.
Catalog ==
  <<[filename |-> "ValueSet-doc.json", resourceType |-> "ValueSet", id |-> "doc",
     url |-> "urn:doc", version |-> "1.0.0"],
    [filename |-> "ValueSet-doc2.json", resourceType |-> "ValueSet", id |-> "doc2",
     url |-> "urn:doc"]>>

FileLists == {SubSeq(Catalog, 1, n) : n \in 0..Min(MaxFiles, Len(Catalog))}

LookupFilters ==
  {[resourceType |-> "ValueSet", id |-> "doc"],
   [id |-> "doc"],
   [url |-> "urn:doc"],
   [url |-> "urn:doc|1.0.0"]}
  \cup {[resourceType |-> "ValueSet", id |-> "doc", package |-> PkgKey(p)] : p \in LookupPackages}

InitLookup ==
  /\ deps \in GraphsOver(LookupPackages, MaxLookupEdges)
  /\ pkgFiles \in {[p \in LookupPackages |-> files] : files \in FileLists}
  /\ skipExamples = FALSE
  /\ callerFilter = NoQuery
  /\ fpiCalls = <<>>
  /\ fault = NoFault
  /\ inflight = <<>>
  /\ fetches = <<>>
  /\ context \in SeqsUpTo(LookupPackages, MaxLookupContext)
  /\ phase = "ready"
  /\ contextPackages = loadContext(context).contextPackages
  /\ normalizedRootPackages = loadContext(context).normalizedRootPackages
  /\ indexCache = <<>>
  /\ fastIndex = <<>>
  /\ contentCache = <<>>
  /\ indexCacheSize \in {SmallCache, LargeCache}
  /\ fastIndexSize \in {SmallCache, LargeCache}
  \* the content cache is as small or as large as the index cache
  /\ contentCacheSize = indexCacheSize
  /\ queries = 0
  /\ query = NoQuery
  /\ candidates = <<>>
  /\ ret = NoRet
  /\ visited = <<>>
  /\ stack = <<>>

Next ==
  \E filter \in LookupFilters :
    \/ LookupMeta(filter)
    \/ Lookup(filter)
    \/ ResolveMeta(filter)
    \/ Resolve(filter)

Spec == InitLookup /\ [][Next]_vars

----------------------------------------------------------------------------
(* Queries on an instance whose collaborator fails in one of its calls *)

\* The filters of these queries: by id, by type and id, within a package.
FaultFilters ==
  {[id |-> "doc"],
   [resourceType |-> "ValueSet", id |-> "doc"],
   [resourceType |-> "ValueSet", id |-> "doc", package |-> "hl7.fhir.uv.sdc#3.0.0"]}

QueryCalls ==
  {"toPackageObject", "getDependencies", "install", "getPackageIndexFile",
   "getPackageDirPath", "loadJson"}

\* create has succeeded; one call of the collaborator fails from then on.
InitQueryFault ==
  /\ deps \in GraphsOver(LookupPackages, MaxLookupEdges)
  /\ pkgFiles = [p \in LookupPackages |-> Catalog]
  /\ skipExamples = FALSE
  /\ callerFilter = NoQuery
  /\ fpiCalls = <<>>
  /\ fault \in {f \in FaultsOn(QueryCalls, LookupPackages) : f.error = "socket hang up"}
  /\ inflight = <<>>
  /\ fetches = <<>>
  /\ context \in SeqsUpTo(LookupPackages, MaxLookupContext)
  /\ phase = "ready"
  /\ contextPackages = loadContext(context).contextPackages
  /\ normalizedRootPackages = loadContext(context).normalizedRootPackages
  /\ indexCache = <<>>
  /\ fastIndex = <<>>
  /\ contentCache = <<>>
  /\ indexCacheSize \in {SmallCache, LargeCache}
  /\ fastIndexSize = LargeCache
  /\ contentCacheSize = indexCacheSize
  /\ queries = 0
  /\ query = NoQuery
  /\ candidates = <<>>
  /\ ret = NoRet
  /\ visited = <<>>
  /\ stack = <<>>

NextQueryFault ==
  \E filter \in FaultFilters :
    \/ LookupMeta(filter)
    \/ Lookup(filter)

SpecQueryFault == InitQueryFault /\ [][NextQueryFault]_vars

----------------------------------------------------------------------------
(* What the claims speak of, stated without the code's traversal *)

\* The declared dependency links, as pairs <<package, dependency>>.
Declared == {pd \in (DOMAIN deps) \X (DOMAIN deps) : pd[2] \in deps[pd[1]]}

\* The links the resolver is specified to follow: every declared link, except
\* those to a dependency whose id contains "examples" when example-skipping is
\* enabled.
Followed == {pd \in Declared : ~(skipExamples /\ Includes(pd[2].id, "examples"))}

\* S together with everything reachable from S over links (a least fixed point)
RECURSIVE ReachBy(_, _)
ReachBy(S, links) ==
  LET T == S \cup {pd[2] : pd \in {l \in links : l[1] \in S}}
  IN  IF T = S THEN S ELSE ReachBy(T, links)

\* p and every package reachable from p over declared dependency links
Reachable(p) == ReachBy({p}, Declared)

\* the transitive closure the resolver is specified to compute (spec 4.1, step 2)
Closure(p) == ReachBy({p}, Followed)

StrLessEq(s, t) == s = t \/ StrLess(s, t)

\* ordered by id first and by version second, without repeated identifiers
SortedByIdThenVersion(arr) ==
  \A i, j \in DOMAIN arr : i < j =>
    /\ arr[i] # arr[j]
    /\ StrLessEq(arr[i].id, arr[j].id)
    /\ arr[i].id = arr[j].id => StrLess(arr[i].version, arr[j].version)

\* a root that lies in the closure of another root of the context
CoveredRoot(r) == \E o \in Range(context) : o # r /\ r \in Closure(o)

----------------------------------------------------------------------------
(* The claims on the closure resolver, under SpecCtx *)

\* C2 (as stated): with example-skipping disabled, after create every package
\* reachable from any root of the context is in getContextPackages().
C2_AllReachableInContext ==
  (phase = "ready" /\ ~skipExamples) =>
    \A r \in Range(context) : Reachable(r) \subseteq Range(contextPackages)

\* C5 (as stated): the normalized roots are a subset of the given roots, the
\* union of their closures is getContextPackages(), none lies in the closure of
\* another, and every root that is a dependency of another root is removed.
C5_Original ==
  phase = "ready" =>
    LET roots == Range(normalizedRootPackages) IN
    /\ roots \subseteq Range(context)
    /\ UNION {Closure(r) : r \in roots} = Range(contextPackages)
    /\ \A r, o \in roots : r # o => r \notin Closure(o)
    /\ \A r \in Range(context) : CoveredRoot(r) => r \notin roots

\* C5 (amended): as C5, except that a root that is a dependency of another root
\* is removed only when some root of the context is not such a dependency; when
\* every root is a dependency of another root, exactly one root is retained.
C5_NormalizedRoots ==
  phase = "ready" =>
    LET roots == Range(normalizedRootPackages) IN
    /\ roots \subseteq Range(context)
    /\ UNION {Closure(r) : r \in roots} = Range(contextPackages)
    /\ \A r, o \in roots : r # o => r \notin Closure(o)
    /\ (\E o \in Range(context) : ~CoveredRoot(o)) =>
         \A r \in Range(context) : CoveredRoot(r) => r \notin roots
    /\ (context # <<>> /\ \A o \in Range(context) : CoveredRoot(o)) =>
         Cardinality(roots) = 1 /\ Len(normalizedRootPackages) = 1

\* C5 witness: create has removed a root that is a dependency of another root
\* and has kept two roots.
C5_Witness ==
  /\ phase = "ready"
  /\ Len(normalizedRootPackages) = 2
  /\ \E r \in Range(context) : CoveredRoot(r) /\ r \notin Range(normalizedRootPackages)

\* C6 (as stated): getContextPackages() and getNormalizedRootPackages() hold no
\* identifier twice and are ordered by id first and by version second.
C6_SortedByIdThenVersion ==
  phase = "ready" =>
    /\ SortedByIdThenVersion(contextPackages)
    /\ SortedByIdThenVersion(normalizedRootPackages)

----------------------------------------------------------------------------
(* The claims on expandPackageDependencies, under SpecExpand *)

ExpandDone == ret.op = "expandPackageDependencies" /\ ret.state = "done"

\* C7 (as stated): expandPackageDependencies(p) returns exactly p together with
\* every package reachable from p by following dependency links, each once.
C7_Original ==
  ExpandDone =>
    /\ Range(ret.value) = Reachable(ret.pkg)
    /\ Len(ret.value) = Cardinality(Reachable(ret.pkg))

\* C7 (amended): every call of expandPackageDependencies(p) returns, and it
\* returns exactly p together with every package reachable from p by following
\* dependency links, each once, where with skipExamples enabled a link to a
\* dependency whose id contains "examples" is not followed.
C7_ExpandTerminatesWithClosure ==
  /\ [](ExpandDone =>
          /\ Range(ret.value) = Closure(ret.pkg)
          /\ Len(ret.value) = Cardinality(Closure(ret.pkg)))
  /\ (Running ~> ExpandDone)

\* C7 witness: an expansion over a dependency cycle has returned more than one
\* package.
C7_Witness ==
  /\ ExpandDone
  /\ Len(ret.value) >= 2
  /\ \E d \in deps[ret.pkg] : d # ret.pkg /\ ret.pkg \in Reachable(d)

----------------------------------------------------------------------------
(* The claims on the duplicate-resolution chain, under SpecDup *)

\* The package families, by the ids of the packages that own the matches.
CoreIds == {"hl7.fhir.r4.core"}
ImplicitIds == {"hl7.terminology.r4", "hl7.terminology.r5", "hl7.fhir.uv.extensions.r4"}

\* resolveMeta has run on several candidates
ResolvedSeveral == ret.op = "resolveMeta" /\ Len(candidates) > 1

\* the candidates whose owning package has one of the ids
CandidatesFrom(ids) == {i \in DOMAIN candidates : candidates[i]["__packageId"] \in ids}

\* the candidates whose owning package is exactly the package of the filter
CandidatesOfFilterPackage ==
  IF "package" \in DOMAIN query
  THEN {i \in DOMAIN candidates : PkgKey(Owner(candidates[i])) = query["package"]}
  ELSE {}

PackageRuleSelects == Cardinality(CandidatesOfFilterPackage) = 1

\* C8: when resolveMeta finds several candidates and exactly one of them is
\* owned by the exact package of the filter, that candidate is returned,
\* whatever packages own the others.
C8_PackageScopeRule ==
  (ResolvedSeveral /\ PackageRuleSelects) =>
    /\ ret.outcome = "value"
    /\ \E i \in CandidatesOfFilterPackage : ret.value = candidates[i]

\* C8 witness: the candidate of the filter's package, which is neither core nor
\* implicit, was returned although a core and an implicit candidate were found.
C8_Witness ==
  /\ ResolvedSeveral /\ PackageRuleSelects
  /\ CandidatesFrom(CoreIds) # {} /\ CandidatesFrom(ImplicitIds) # {}
  /\ ret.outcome = "value"
  /\ ret.value["__packageId"] \notin CoreIds \cup ImplicitIds

C10_ImplicitOverCore ==
  (/\ ResolvedSeveral /\ ~PackageRuleSelects
   /\ CandidatesFrom(ImplicitIds) # {}
   /\ CandidatesFrom(CoreIds) # {}) =>
    /\ ~(ret.outcome = "value" /\ ret.value["__packageId"] \in CoreIds)
    /\ (Len(candidates) = 2) =>
         /\ ret.outcome = "value"
         /\ \E i \in CandidatesFrom(ImplicitIds) : ret.value = candidates[i]

----------------------------------------------------------------------------
(* The claims on the queries, under Spec *)

\* every index entry of every package of the canonical scope
ScopeEntries ==
  UNION {{("__packageId" :> p.id) @@ ("__packageVersion" :> p.version) @@ pkgFiles[p][i] :
            i \in DOMAIN pkgFiles[p]} : p \in Range(contextPackages)}

\* every field of the filter but `package` is on the entry with an equal value
Matches(entry, filter) ==
  \A k \in DOMAIN filter \ {"package"} : k \in DOMAIN entry /\ entry[k] = filter[k]

\* the owning package is in the closure of the package of the filter, if any
InPackageScope(entry, filter) ==
  "package" \in DOMAIN filter =>
    \E p \in DOMAIN deps : PkgKey(p) = filter["package"] /\ Owner(entry) \in Closure(p)

\* the result of a full linear scan of every in-scope package with filter f
LinearScan(f) ==
  {e \in ScopeEntries : Matches(e, normalizePipedFilter(f)) /\ InPackageScope(e, f)}

\* C1 (as stated): after any earlier queries, lookupMeta(f) returns exactly the
\* entries of the in-scope packages (of the closure of f.package, if given)
\* that match normalize(f): the result of a full linear scan.
C1_FastPathEqualsLinearScan ==
  ret.op = "lookupMeta" => Range(ret.value) = LinearScan(query)

\* C3: resolve and resolveMeta return a result exactly when their lookup
\* yields one candidate, which is the result, or several candidates that the
\* duplicate-resolution chain reduces to one, which is the result; they fail
\* with NoMatchFound exactly when it yields none, and with AmbiguousMatch in
\* every other case.
C3_ResolveOutcome ==
  ret.op \in {"resolve", "resolveMeta"} =>
    LET several == Len(candidates) > 1
        reduced == tryResolveDuplicates(candidates, query)
    IN  /\ ret.outcome \in {"value", "NoMatchFound", "AmbiguousMatch"}
        /\ ret.outcome = "NoMatchFound" <=> Len(candidates) = 0
        /\ ret.outcome = "value" <=> (Len(candidates) = 1 \/ (several /\ Len(reduced) = 1))
        /\ (ret.outcome = "value" /\ ~several) => ret.value = candidates[1]
        /\ (ret.outcome = "value" /\ several) => ret.value = reduced[1]

\* C3 witness: resolve has failed with AmbiguousMatch on several candidates of
\* one package.
C3_Witness ==
  /\ ret.op = "resolve"
  /\ ret.outcome = "AmbiguousMatch"
  /\ Len(candidates) = 2
  /\ candidates[1]["__packageId"] = candidates[2]["__packageId"]

\* C4 (as stated): with `package` = P in the filter, lookupMeta returns the
\* matching entries of the in-scope packages of the closure of P, all of them
\* and no other, and resolve fails with NoMatchFound when there is none.
C4_PackageScope ==
  "package" \in DOMAIN query =>
    /\ ret.op = "lookupMeta" =>
         /\ \A e \in Range(ret.value) : e \in ScopeEntries /\ InPackageScope(e, query)
         /\ \A e \in LinearScan(query) : e \in Range(ret.value)
    /\ (ret.op \in {"resolve", "resolveMeta"} /\ LinearScan(query) = {}) =>
         ret.outcome = "NoMatchFound"

----------------------------------------------------------------------------
(* The semver step of the chain on its own: resolveMeta on matches of the    *)
(* versions of one package, the documents carrying versions of their own.    *)

\* most matches handed to the semver step
MaxSemverMatches == 3

SemverOwners ==
  {Pkg("hl7.fhir.uv.sdc", "3.0.0"),
   Pkg("hl7.fhir.uv.sdc", "2.7.0"),
   Pkg("hl7.fhir.uv.sdc", "2.0.0"),
   Pkg("hl7.fhir.us.core", "3.1.0")}

\* The document's own version: none, strict semvers (one with a prerelease
\* tag, one whose minor has two digits), a date.
SemverVersions == {NoVersion, "1.0.0", "1.2.0", "1.10.0", "1.2.0-beta", "2019-07"}

InitSemver ==
  /\ deps = [p \in SemverOwners |-> {}]
  /\ pkgFiles = NoFiles(SemverOwners)
  /\ skipExamples = FALSE
  /\ callerFilter = NoQuery
  /\ fpiCalls = <<>>
  /\ fault = NoFault
  /\ inflight = <<>>
  /\ fetches = <<>>
  /\ context = <<>>
  /\ phase = "ready"
  /\ contextPackages = <<>>
  /\ normalizedRootPackages = <<>>
  /\ indexCache = <<>>
  /\ fastIndex = <<>>
  /\ contentCache = <<>>
  /\ indexCacheSize = DefaultIndexCacheSize
  /\ fastIndexSize = DefaultFastIndexSize
  /\ contentCacheSize = DefaultContentCacheSize
  /\ queries = 0
  /\ candidates \in MatchesUpTo({DupEntry(o, "StructureDefinition", v) :
                                   o \in SemverOwners, v \in SemverVersions}, MaxSemverMatches)
  /\ query \in {DupFilter(NoVersion, p) : p \in {NoVersion, "hl7.fhir.uv.sdc#3.0.0"}}
  /\ ret = NoRet
  /\ visited = <<>>
  /\ stack = <<>>

\* resolve on the documents of the matches
ResolveDocuments ==
  /\ phase = "ready"
  /\ ret = NoRet
  /\ \E matches \in {Documents(contentCache, candidates)} :
       /\ contentCache' = ContentCacheAfter(contentCache, candidates, Len(candidates))
       /\ candidates' = matches
       /\ ret' = [op |-> "resolve"] @@ ResolveOutcome(matches, query)
  /\ callerFilter' = CallerFilterAfter(query)
  /\ UNCHANGED <<deps, pkgFiles, skipExamples, fault, fpiCalls, inflight, fetches, context, phase,
                 contextPackages,
                 normalizedRootPackages, indexCache, fastIndex, indexCacheSize,
                 fastIndexSize, contentCacheSize, queries, query, visited, stack>>

NextSemver == ResolveCandidates \/ ResolveDocuments

SpecSemver == InitSemver /\ [][NextSemver]_vars

----------------------------------------------------------------------------
(* The claims on the semver step, under SpecSemver *)

\* major, minor and patch of a strict semver, as numbers
VersionTriple(v) ==
  LET core == Split(Split(v, "-")[1], ".")
  IN  [i \in 1..3 |-> DigitsValue(core[i], Len(core[i]))]

\* a is a greater version than b: major, then minor, then patch
VersionGreater(a, b) ==
  LET x == VersionTriple(a)
      y == VersionTriple(b)
  IN  \/ x[1] > y[1]
      \/ x[1] = y[1] /\ x[2] > y[2]
      \/ x[1] = y[1] /\ x[2] = y[2] /\ x[3] > y[3]

\* every candidate carries a version of its own that is a strict semver
AllSemver ==
  \A i \in DOMAIN candidates :
    "version" \in DOMAIN candidates[i] /\ IsSemver(candidates[i]["version"])

\* the candidates are owned by versions of one package, neither core nor implicit
OnePackageId ==
  /\ Cardinality({candidates[i]["__packageId"] : i \in DOMAIN candidates}) = 1
  /\ CandidatesFrom(CoreIds \cup ImplicitIds) = {}

SemverCase == ResolvedSeveral /\ ~PackageRuleSelects /\ OnePackageId /\ AllSemver

\* C11 (as stated): when no earlier rule resolved the candidates, they share
\* one owning package id and each carries a strict semver of its own, a
\* candidate is returned, none of the candidates has a greater version than
\* it, and it is from the latest of the package versions the candidates are from.
C11_SemverCollapse ==
  SemverCase =>
    /\ ret.outcome = "value"
    /\ \E i \in DOMAIN candidates : ret.value = candidates[i]
    /\ \A i \in DOMAIN candidates : ~VersionGreater(candidates[i]["version"], ret.value["version"])
    /\ \A i \in DOMAIN candidates :
         ~VersionGreater(candidates[i]["__packageVersion"], ret.value["__packageVersion"])

\* resolve or resolveMeta has run on several candidates
ResolveRanOnSeveral == ret.op \in {"resolve", "resolveMeta"} /\ Len(candidates) > 1

\* the candidates are owned by several package ids, none core, none implicit
SeveralPlainIds ==
  /\ Cardinality({candidates[i]["__packageId"] : i \in DOMAIN candidates}) >= 2
  /\ CandidatesFrom(CoreIds \cup ImplicitIds) = {}

\* C12: when the candidates come from two or more package ids, none core and
\* none implicit, and the package-scope rule selects none, resolve and
\* resolveMeta fail with AmbiguousMatch, and the message starts with "Multiple
\* matching resources found" and contains every value of the filter and the
\* id@version of the owning package of every candidate.
C12_AmbiguousAcrossPackages ==
  (ResolveRanOnSeveral /\ SeveralPlainIds /\ ~PackageRuleSelects) =>
    /\ ret.outcome = "AmbiguousMatch"
    /\ StartsWith(ret.message, "Multiple matching resources found")
    /\ \A k \in DOMAIN query : Includes(ret.message, query[k])
    /\ \A i \in DOMAIN candidates :
         Includes(ret.message,
                  candidates[i]["__packageId"] \o "@" \o candidates[i]["__packageVersion"])

\* C12 witness: resolve has failed on three documents of two package ids, all
\* with a strict semver, under a filter that names a package owning none.
C12_Witness ==
  /\ ret.op = "resolve" /\ Len(candidates) = 3
  /\ SeveralPlainIds /\ AllSemver
  /\ "package" \in DOMAIN query /\ CandidatesOfFilterPackage = {}
  /\ ret.outcome = "AmbiguousMatch"

----------------------------------------------------------------------------
(* The claims on repeated queries, under Spec *)

\* C13 (as stated, for two calls in a row): when lookupMeta(f) follows
\* lookupMeta(f) on an instance, the second call returns the same set of
\* entries as the first.
C13_LookupMetaIdempotent ==
  [][(ret.op = "lookupMeta" /\ ret'.op = "lookupMeta" /\ query' = query)
       => Range(ret'.value) = Range(ret.value)]_vars

----------------------------------------------------------------------------
(* normalizePipedFilter on its own *)

\* The values a filter may give each of its fields; Absent: the field is not
\* in the filter.
Absent == "(absent)"
NormValues ==
  [url |-> {Absent, "X", "X|V", "X|V|W", "X|", "|V"},
   name |-> {Absent, "N", "N|2"},
   id |-> {Absent, "i", "i|3"},
   version |-> {Absent, "9"},
   resourceType |-> {Absent, "ValueSet"}]

\* the filter that gives each field its value of choice
FilterOf(choice) ==
  [k \in {f \in DOMAIN choice : choice[f] # Absent} |-> choice[k]]

NormFilters ==
  {FilterOf(choice) : choice \in [url : NormValues.url, name : NormValues.name,
                                  id : NormValues.id, version : NormValues.version,
                                  resourceType : NormValues.resourceType]}

Normalize ==
  /\ ret = NoRet
  /\ ret' = [op |-> "normalize", value |-> normalizePipedFilter(query)]
  /\ callerFilter' = CallerFilterAfter(query)
  /\ UNCHANGED <<deps, pkgFiles, skipExamples, fault, fpiCalls, inflight, fetches, context, phase,
                 contextPackages,
                 normalizedRootPackages, indexCache, fastIndex, contentCache,
                 indexCacheSize, fastIndexSize, contentCacheSize, queries, query, candidates,
                 visited, stack>>

InitNorm ==
  /\ deps = [p \in {} |-> {}]
  /\ pkgFiles = NoFiles({})
  /\ skipExamples = FALSE
  /\ callerFilter = NoQuery
  /\ fpiCalls = <<>>
  /\ fault = NoFault
  /\ inflight = <<>>
  /\ fetches = <<>>
  /\ context = <<>>
  /\ phase = "ready"
  /\ contextPackages = <<>>
  /\ normalizedRootPackages = <<>>
  /\ indexCache = <<>>
  /\ fastIndex = <<>>
  /\ contentCache = <<>>
  /\ indexCacheSize = DefaultIndexCacheSize
  /\ fastIndexSize = DefaultFastIndexSize
  /\ contentCacheSize = DefaultContentCacheSize
  /\ queries = 0
  /\ query \in NormFilters
  /\ candidates = <<>>
  /\ ret = NoRet
  /\ visited = <<>>
  /\ stack = <<>>

NextNorm == Normalize

SpecNorm == InitNorm /\ [][NextNorm]_vars

----------------------------------------------------------------------------
(* The claims on normalizePipedFilter, under SpecNorm *)

\* the positions of the pipes of a string
Pipes(s) == {i \in 1..Len(s) : Ch(s, i) = "|"}

\* the fields url, name, id of the filter that hold a pipe
PipedFields == {k \in {"url", "name", "id"} \cap DOMAIN query : Pipes(query[k]) # {}}

\* the first of them in the order url, name, id
FirstPiped ==
  IF "url" \in PipedFields THEN "url" ELSE IF "name" \in PipedFields THEN "name" ELSE "id"

FirstPipe(s) == CHOOSE i \in Pipes(s) : \A j \in Pipes(s) : i <= j

\* the end of the text that follows the first pipe: before the second pipe, if any
VersionEnd(s) ==
  IF Pipes(s) \ {FirstPipe(s)} = {} THEN Len(s)
  ELSE (CHOOSE i \in Pipes(s) \ {FirstPipe(s)} : \A j \in Pipes(s) \ {FirstPipe(s)} : i <= j) - 1

\* all of the filter but the piped field and the version is as it was
OthersUnchanged ==
  /\ DOMAIN ret.value = DOMAIN query \cup {"version"}
  /\ \A k \in DOMAIN query \ {FirstPiped, "version"} : ret.value[k] = query[k]

\* C15 (as stated): the first piped field of url, name, id is replaced by the
\* text before its pipe and version is set to all the text after that pipe,
\* whatever version the filter had; every other field is unchanged; a filter
\* without a piped field is returned as it is.
C15_Original ==
  ret.op = "normalize" =>
    IF PipedFields = {} THEN ret.value = query
    ELSE LET s == query[FirstPiped]
         IN  /\ ret.value[FirstPiped] = SubSeq(s, 1, FirstPipe(s) - 1)
             /\ ret.value["version"] = SubSeq(s, FirstPipe(s) + 1, Len(s))
             /\ OthersUnchanged

\* C15 (amended): as stated, but version is set to the text between the first
\* pipe of the field and its second pipe, or the end of the value when it
\* holds one pipe only.
C15_NormalizePiped ==
  ret.op = "normalize" =>
    IF PipedFields = {} THEN ret.value = query
    ELSE LET s == query[FirstPiped]
         IN  /\ ret.value[FirstPiped] = SubSeq(s, 1, FirstPipe(s) - 1)
             /\ ret.value["version"] = SubSeq(s, FirstPipe(s) + 1, VersionEnd(s))
             /\ OthersUnchanged

\* C15 witness: a filter with a piped url, a piped id and a version of its own
\* was normalized: the version is the one of the url, the id is still piped.
C15_Witness ==
  /\ ret.op = "normalize"
  /\ {"url", "id"} \subseteq PipedFields
  /\ "version" \in DOMAIN query
  /\ ret.value["version"] # query["version"]
  /\ ret.value["id"] = query["id"]

----------------------------------------------------------------------------
(* The claims on a create whose collaborator fails, under SpecCreateFault *)

\* the failing call is one create makes on an entry of the context:
\* normalizing it, installing it, fetching its dependency map
FaultOnContextEntry ==
  /\ fault.call \in {"toPackageObject", "install", "getDependencies"}
  /\ \E i \in DOMAIN context : context[i] = fault.pkg

\* create has failed, and left no context behind
CreateFailedAsAWhole ==
  /\ phase = "failed"
  /\ contextPackages = <<>> /\ normalizedRootPackages = <<>>
  /\ ret.op = "create" /\ ret.outcome = "error"

\* C16 (as stated): when normalizing, installing or fetching the dependency
\* map of an entry of the context fails, create fails as a whole, no context
\* is stored, and the error it surfaces names the package the call failed for.
C16_CreateFailsAsAWhole ==
  (phase # "new" /\ FaultOnContextEntry) =>
    /\ CreateFailedAsAWhole
    /\ Includes(ret.error, fault.pkg.id)

----------------------------------------------------------------------------
(* The claims on queries whose collaborator fails, under SpecQueryFault *)

\* the last query has rejected
QueryRejected == ret.op \in {"lookupMeta", "lookup"} /\ "error" \in DOMAIN ret

\* The packages the last query had to go through: those of the scope, within
\* the closure of the package of the filter if it names one.
PackagesOfQuery ==
  {p \in Range(contextPackages) :
     "package" \in DOMAIN query =>
        \E root \in DOMAIN deps : PkgKey(root) = query["package"] /\ p \in Closure(root)}

\* C17: lookupMeta and lookup either return or reject with the error of the
\* collaborator; when they reject they return nothing, not even the matches
\* found in the packages before the failure; and whenever they return, no
\* call they had to make has failed: not the fetch of the index of a package
\* they went through, not the read of a document lookup returns.
C17_FailsAsAWhole ==
  ret.op \in {"lookupMeta", "lookup"} =>
    /\ QueryRejected => (ret.error = fault.error /\ "value" \notin DOMAIN ret)
    /\ ~QueryRejected =>
         /\ "value" \in DOMAIN ret
         /\ fault.call \in {"install", "getPackageIndexFile"} =>
              fault.pkg \notin PackagesOfQuery
         /\ (ret.op = "lookup" /\ fault.call \in {"getPackageDirPath", "loadJson"}) =>
              \A i \in DOMAIN candidates : Owner(candidates[i]) # fault.pkg

\* C17 witness: lookupMeta has rejected after it had found a match in an
\* earlier package.
C17_Witness ==
  /\ ret.op = "lookupMeta" /\ QueryRejected
  /\ Len(ret.discarded) > 0

----------------------------------------------------------------------------
(* Concurrent lookupMeta calls on one instance.  A call runs without         *)
(* interruption until it awaits the collaborator for the index of a package  *)
(* that is not cached (install, getPackageIndexFile), and again from the     *)
(* moment that index arrives.                                                *)

\* most lookupMeta calls made on the instance
MaxInflight == 2

\* index.ts:157-165 and 168-181 for a package whose raw index has arrived:
\* the index is stored and keyed without a second look at the cache.
FetchedInPackage(st, pkg, filter, allowed) ==
  LET pkgKey == PkgKey(pkg)
      index == NewIndex(pkg)
      indexed == LruSet(st.indexCache, indexCacheSize, pkgKey, index)
      built == buildFastIndex(st.fastIndex, index)
      fastKeys == getAllFastIndexKeys(filter)
      fastCandidates == FastCandidates(built, fastKeys, Len(fastKeys))
      cands == IF Len(fastCandidates) > 0 THEN fastCandidates ELSE index
  IN  [indexCache |-> indexed,
       fastIndex |-> TouchedBy(built, fastKeys, Len(fastKeys)),
       results |-> ResultsAfter(st.results, cands, Len(cands), filter, allowed),
       error |-> ""]

\* The loop of lookupMeta from the package at position i on, up to its next
\* await: `at` is the position of the package whose index it awaits, or is
\* past the last package when the loop has ended.
RECURSIVE RunFrom(_, _, _, _)
RunFrom(st, i, filter, allowed) ==
  IF i > Len(contextPackages) THEN [st |-> st, at |-> i]
  ELSE IF allowed.restricted /\ PkgKey(contextPackages[i]) \notin allowed.keys
  THEN RunFrom(st, i + 1, filter, allowed)
  ELSE IF ~LruHas(st.indexCache, PkgKey(contextPackages[i])) THEN [st |-> st, at |-> i]
  ELSE TheOne({RunFrom(after, i + 1, filter, allowed)
               : after \in {LookupInPackage(st, contextPackages[i], filter, allowed)}})

\* the local state of a call, and the caches, after a run of the loop
Suspended(filter, ran) ==
  [filter |-> filter, at |-> ran.at, resultMap |-> ran.st.results,
   done |-> ran.at > Len(contextPackages)]

\* lookupMeta(filter) is called: it runs up to its first await, or returns.
BeginLookupMeta(filter) ==
  /\ phase = "ready"
  /\ Len(inflight) < MaxInflight
  /\ \E normalizedFilter \in {normalizePipedFilter(filter)} :
       \E ran \in {RunFrom([indexCache |-> indexCache, fastIndex |-> fastIndex,
                            results |-> <<>>, error |-> ""],
                           1, normalizedFilter, AllowedPackages(normalizedFilter))} :
         /\ indexCache' = ran.st.indexCache
         /\ fastIndex' = ran.st.fastIndex
         /\ inflight' = Append(inflight, Suspended(filter, ran))
  /\ UNCHANGED <<deps, pkgFiles, skipExamples, callerFilter, fault, fpiCalls, fetches, context, phase,
                 contextPackages, normalizedRootPackages, contentCache, indexCacheSize,
                 fastIndexSize, contentCacheSize, queries, query, candidates, ret,
                 visited, stack>>

\* The raw index call k awaited has arrived: the call stores it, keys it,
\* matches, and runs on up to its next await, or returns.
IndexArrives(k) ==
  /\ k \in DOMAIN inflight
  /\ ~inflight[k].done
  /\ \E normalizedFilter \in {normalizePipedFilter(inflight[k].filter)} :
       \E fetched \in {FetchedInPackage([indexCache |-> indexCache, fastIndex |-> fastIndex,
                                         results |-> inflight[k].resultMap, error |-> ""],
                                        contextPackages[inflight[k].at], normalizedFilter,
                                        AllowedPackages(normalizedFilter))} :
         \E ran \in {RunFrom(fetched, inflight[k].at + 1, normalizedFilter,
                             AllowedPackages(normalizedFilter))} :
           /\ indexCache' = ran.st.indexCache
           /\ fastIndex' = ran.st.fastIndex
           /\ inflight' = [inflight EXCEPT ![k] = Suspended(inflight[k].filter, ran)]
  /\ fetches' = [fetches EXCEPT ![contextPackages[inflight[k].at]] = @ + 1]
  /\ UNCHANGED <<deps, pkgFiles, skipExamples, callerFilter, fault, fpiCalls, context, phase,
                 contextPackages, normalizedRootPackages, contentCache, indexCacheSize,
                 fastIndexSize, contentCacheSize, queries, query, candidates, ret,
                 visited, stack>>

\* The filters of the concurrent calls.
ConcFilters ==
  {[id |-> "doc"],
   [resourceType |-> "ValueSet", id |-> "doc"],
   [resourceType |-> "ValueSet", url |-> "urn:doc|1.0.0"],
   [resourceType |-> "ValueSet", id |-> "doc", package |-> "hl7.terminology.r4#5.0.0"]}

InitConc ==
  /\ deps \in GraphsOver(LookupPackages, MaxLookupEdges)
  /\ pkgFiles \in {[p \in LookupPackages |-> files] : files \in FileLists}
  /\ skipExamples = FALSE
  /\ callerFilter = NoQuery
  /\ fpiCalls = <<>>
  /\ fault = NoFault
  /\ inflight = <<>>
  /\ fetches = [p \in LookupPackages |-> 0]
  /\ context \in SeqsUpTo(LookupPackages, MaxLookupContext)
  /\ phase = "ready"
  /\ contextPackages = loadContext(context).contextPackages
  /\ normalizedRootPackages = loadContext(context).normalizedRootPackages
  /\ indexCache = <<>>
  /\ fastIndex = <<>>
  /\ contentCache = <<>>
  /\ indexCacheSize \in {SmallCache, LargeCache}
  /\ fastIndexSize \in {SmallCache, LargeCache}
  /\ contentCacheSize = indexCacheSize
  /\ queries = 0
  /\ query = NoQuery
  /\ candidates = <<>>
  /\ ret = NoRet
  /\ visited = <<>>
  /\ stack = <<>>

NextConc ==
  \/ \E filter \in ConcFilters : BeginLookupMeta(filter)
  \/ \E k \in 1..MaxInflight : IndexArrives(k)

SpecConc == InitConc /\ [][NextConc]_vars

----------------------------------------------------------------------------
(* The claims on concurrent calls, under SpecConc *)

\* C18 (as stated): every lookupMeta call that has returned, whatever calls
\* were in flight with it and however they interleaved, has returned the set
\* of entries it returns when it runs alone: the matching entries of the
\* in-scope packages.
C18_ConcurrentEqualsAlone ==
  \A k \in DOMAIN inflight :
    inflight[k].done => Range(inflight[k].resultMap) = LinearScan(inflight[k].filter)

\* C20 (as stated): the raw index of a package is fetched and turned into
\* index entries at most once on an instance.
C20_IndexedAtMostOnce ==
  \A p \in DOMAIN fetches : fetches[p] <= 1

----------------------------------------------------------------------------
(* The claim on eviction, under Spec *)

\* C19 (as stated): whatever the sizes of the three caches and whatever was
\* evicted by the queries so far, lookupMeta(f) and lookup(f) miss no
\* matching entry of the in-scope packages: each is among the entries
\* lookupMeta returns and has its document among those lookup returns.
C19_EvictionLosesNothing ==
  /\ ret.op = "lookupMeta" => \A e \in LinearScan(query) : e \in Range(ret.value)
  /\ ret.op = "lookup" =>
       \A e \in LinearScan(query) : \E n \in DOMAIN ret.value : ret.value[n] = Enriched(e)

----------------------------------------------------------------------------
(* Every exposed operation on one instance: create, then the queries, the   *)
(* dependency operations and getPackageManifest, with a collaborator that   *)
(* may fail in one of its calls.                                             *)

\* A package argument: a FhirPackageIdentifier, or its `id#version` string.
ArgCalls(pkg, asString) ==
  IF asString THEN {[call |-> "toPackageObject", pkg |-> pkg]} ELSE {}

\* String(pkg)
StringOf(pkg, asString) == IF asString THEN PkgKey(pkg) ELSE "[object Object]"

\* Object.entries(dependencies).map(([id, version]) => ({ id, version }))
GetDirectDependencies(pkg, asString) ==
  /\ phase = "ready"
  /\ ret' = IF FaultHits(ArgCalls(pkg, asString) \cup {[call |-> "getDependencies", pkg |-> pkg]})
            THEN Rejected("getDirectDependencies", fault.error, <<>>)
            ELSE [op |-> "getDirectDependencies", pkg |-> pkg, value |-> SetToSeq(deps[pkg])]
  /\ UNCHANGED <<deps, pkgFiles, skipExamples, callerFilter, fault, fpiCalls, inflight, fetches, context, phase,
                 contextPackages, normalizedRootPackages, indexCache, fastIndex,
                 contentCache, indexCacheSize, fastIndexSize, contentCacheSize, queries,
                 query, candidates, visited, stack>>

\* the collaborator calls of expandPackageDependencies(pkg)
ExpandCalls(pkg, asString) ==
  ArgCalls(pkg, asString)
  \cup {[call |-> c, pkg |-> KeyToPkg(key)] :
          c \in {"getDependencies", "toPackageObject"}, key \in collectDependencies(pkg)}

\* expandPackageDependencies(pkg), from its call to its return
ExpandPackageDependencies(pkg, asString) ==
  /\ phase = "ready"
  /\ ret' = IF FaultHits(ExpandCalls(pkg, asString))
            THEN Rejected("expandPackageDependencies", fault.error, <<>>)
            ELSE [op |-> "expandPackageDependencies", pkg |-> pkg, state |-> "done",
                  value |-> sortPackages(SetToSeq({toPackageObject(key) :
                                                     key \in collectDependencies(pkg)}))]
  /\ UNCHANGED <<deps, pkgFiles, skipExamples, callerFilter, fault, fpiCalls, inflight, fetches, context, phase,
                 contextPackages, normalizedRootPackages, indexCache, fastIndex,
                 contentCache, indexCacheSize, fastIndexSize, contentCacheSize, queries,
                 query, candidates, visited, stack>>

\* The collaborator's getManifest: the package.json of the package.
Manifest(pkg) == [name |-> pkg.id, version |-> pkg.version]

\* getPackageManifest(pkg): found tells whether getManifest returns a manifest.
GetPackageManifest(pkg, asString, found) ==
  /\ phase = "ready"
  /\ ret' = IF FaultHits({[call |-> "getManifest", pkg |-> pkg]})
            THEN Rejected("getPackageManifest", fault.error, <<>>)
            ELSE IF ~found
            THEN Rejected("getPackageManifest",
                          "Failed to fetch manifest (package.json) for package: "
                            \o StringOf(pkg, asString), <<>>)
            ELSE [op |-> "getPackageManifest", pkg |-> pkg, value |-> Manifest(pkg)]
  /\ UNCHANGED <<deps, pkgFiles, skipExamples, callerFilter, fault, fpiCalls, inflight, fetches, context, phase,
                 contextPackages, normalizedRootPackages, indexCache, fastIndex,
                 contentCache, indexCacheSize, fastIndexSize, contentCacheSize, queries,
                 query, candidates, visited, stack>>

\* the calls of the collaborator the operations make
OpsCalls ==
  {"toPackageObject", "getDependencies", "install", "getPackageIndexFile",
   "getPackageDirPath", "loadJson", "getManifest"}

\* The package a call may fail for.
OpsFaultPackages == {Pkg("hl7.fhir.uv.sdc", "3.0.0")}

\* The filters of the queries: by id, and by type and id within a package.
OpsFilters ==
  {[id |-> "doc"],
   [resourceType |-> "ValueSet", id |-> "doc", package |-> "hl7.fhir.uv.sdc#3.0.0"]}

InitOps ==
  /\ deps \in GraphsOver(LookupPackages, MaxLookupEdges)
  /\ pkgFiles = [p \in LookupPackages |-> Catalog]
  /\ skipExamples = FALSE
  /\ callerFilter = NoQuery
  /\ fpiCalls = <<>>
  /\ fault \in {NoFault} \cup
               {f \in FaultsOn(OpsCalls, OpsFaultPackages) : f.error = "socket hang up"}
  /\ inflight = <<>>
  /\ fetches = <<>>
  /\ context \in SeqsUpTo(LookupPackages, MaxLookupContext)
  /\ phase = "new"
  /\ contextPackages = <<>>
  /\ normalizedRootPackages = <<>>
  /\ indexCache = <<>>
  /\ fastIndex = <<>>
  /\ contentCache = <<>>
  /\ indexCacheSize = LargeCache
  /\ fastIndexSize = LargeCache
  /\ contentCacheSize = LargeCache
  /\ queries = 0
  /\ query = NoQuery
  /\ candidates = <<>>
  /\ ret = NoRet
  /\ visited = <<>>
  /\ stack = <<>>

NextOps ==
  \/ Create
  \/ CreateFails
  \/ \E filter \in OpsFilters :
       \/ LookupMeta(filter)
       \/ Lookup(filter)
       \/ ResolveMeta(filter)
       \/ Resolve(filter)
  \/ \E pkg \in LookupPackages, asString \in BOOLEAN :
       \/ GetDirectDependencies(pkg, asString)
       \/ ExpandPackageDependencies(pkg, asString)
       \/ \E found \in BOOLEAN : GetPackageManifest(pkg, asString, found)

SpecOps == InitOps /\ [][NextOps]_vars

----------------------------------------------------------------------------
(* The claim on the getters, under SpecOps *)

\* A getter that hands out the packages of the scope of the last query.
getContextPackages_OfLastQuery ==
  IF query = NoQuery THEN contextPackages
  ELSE SelectSeq(contextPackages,
                 LAMBDA p : \/ ~AllowedPackages(normalizePipedFilter(query)).restricted
                            \/ PkgKey(p) \in AllowedPackages(normalizePipedFilter(query)).keys)

getContextPackages == contextPackages

getNormalizedRootPackages == normalizedRootPackages

\* C21: once create has returned an instance, no step of lookup, lookupMeta,
\* resolve, resolveMeta, expandPackageDependencies, getDirectDependencies or
\* getPackageManifest, whether the operation returns or rejects, changes what
\* getContextPackages() and getNormalizedRootPackages() return.
C21_ScopeIsFrozen ==
  [][phase = "ready" =>
       /\ getContextPackages' = getContextPackages
       /\ getNormalizedRootPackages' = getNormalizedRootPackages]_vars

\* C21 witness: on an instance of two packages, a query within the scope of
\* one of them has rejected after an earlier query.
C21_Witness ==
  /\ phase = "ready"
  /\ Len(getContextPackages) = 2
  /\ queries = 2
  /\ "package" \in DOMAIN query
  /\ "error" \in DOMAIN ret

----------------------------------------------------------------------------
(* The whole chain on matches of core, implicit and other packages, by      *)
(* resolveMeta on the entries and by resolve on the documents.               *)

\* most matches handed to the chain
MaxChainMatches == 3

\* The owning packages: core, three terminology packages (two of one version,
\* one whose minor has two digits), an extensions package, another package.
ChainOwners ==
  {Pkg("hl7.fhir.r4.core", "4.0.1"),
   Pkg("hl7.terminology.r4", "6.9.0"),
   Pkg("hl7.terminology.r4", "6.10.0"),
   Pkg("hl7.terminology.r5", "6.9.0"),
   Pkg("hl7.terminology.r5", "6.10.0-beta"),
   Pkg("hl7.fhir.uv.extensions.r4", "1.0.0"),
   Pkg("hl7.fhir.uv.sdc", "3.0.0")}

\* The document's own version: none, or a strict semver.
ChainVersions == {NoVersion, "1.0.0"}

\* The package the filter names, if it names one.
ChainFilterPackages == {NoVersion, "hl7.fhir.uv.sdc#3.0.0", "hl7.terminology.r4#6.9.0"}

InitChain ==
  /\ deps = [p \in ChainOwners |-> {}]
  /\ pkgFiles = NoFiles(ChainOwners)
  /\ skipExamples = FALSE
  /\ callerFilter = NoQuery
  /\ fpiCalls = <<>>
  /\ fault = NoFault
  /\ inflight = <<>>
  /\ fetches = <<>>
  /\ context = <<>>
  /\ phase = "ready"
  /\ contextPackages = <<>>
  /\ normalizedRootPackages = <<>>
  /\ indexCache = <<>>
  /\ fastIndex = <<>>
  /\ contentCache = <<>>
  /\ indexCacheSize = DefaultIndexCacheSize
  /\ fastIndexSize = DefaultFastIndexSize
  /\ contentCacheSize = DefaultContentCacheSize
  /\ queries = 0
  /\ \E rt \in DupResourceTypes :
       /\ candidates \in MatchesUpTo({DupEntry(o, rt, v) : o \in ChainOwners, v \in ChainVersions},
                                     MaxChainMatches)
       /\ query \in {DupFilter(t, p) : t \in {NoVersion, rt}, p \in ChainFilterPackages}
  /\ ret = NoRet
  /\ visited = <<>>
  /\ stack = <<>>

NextChain == ResolveCandidates \/ ResolveDocuments

SpecChain == InitChain /\ [][NextChain]_vars

----------------------------------------------------------------------------
(* The claims on the whole chain, under SpecChain *)

\* resolve or resolveMeta has run on several candidates, exactly one of them
\* from a core package, and the package-scope rule selects none
OneCoreAmongSeveral ==
  /\ ResolveRanOnSeveral /\ ~PackageRuleSelects
  /\ Cardinality(CandidatesFrom(CoreIds)) = 1

\* the core candidate was returned
CoreReturned ==
  /\ ret.outcome = "value"
  /\ \E i \in CandidatesFrom(CoreIds) : ret.value = candidates[i]

----------------------------------------------------------------------------
(* create with config.fhirVersion *)

\* /^hl7\.fhir\.r\d+b?\.core$/
IsFhirCorePackageId(id) ==
  \/ MatchesDigitsBetween(id, "hl7.fhir.r", ".core")
  \/ MatchesDigitsBetween(id, "hl7.fhir.r", "b.core")

\* resolveFhirVersionToCorePackage, by the values it is tested to return
CorePackageOfFhirVersion ==
  [x \in {"3.0.2", "3.0", "R3", "STU3"} |-> Pkg("hl7.fhir.r3.core", "3.0.2")]
  @@ [x \in {"4.0.1", "4.0"} |-> Pkg("hl7.fhir.r4.core", "4.0.1")]
  @@ [x \in {"4.3.0", "4.3"} |-> Pkg("hl7.fhir.r4b.core", "4.3.0")]
  @@ [x \in {"5.0.0", "5.0"} |-> Pkg("hl7.fhir.r5.core", "5.0.0")]

resolveFhirVersionToCorePackage(fhirVersion) == CorePackageOfFhirVersion[fhirVersion]

\* instance.contextPackages.some(pkg => pkg.id.match(...))
HasCorePackage(packages) ==
  \E i \in DOMAIN packages : IsFhirCorePackageId(packages[i].id)

\* effectiveContext: the context, with the core package of fhirVersion when
\* the packages of the context hold no core package
EffectiveContext(ctx, fhirVersion) ==
  IF HasCorePackage(loadContext(ctx).contextPackages) THEN ctx
  ELSE Append(ctx, resolveFhirVersionToCorePackage(fhirVersion))

\* create({ context, fhirVersion }) when no collaborator call fails
CreateWithFhirVersion(fhirVersion) ==
  /\ phase = "new"
  /\ \E effectiveContext \in {EffectiveContext(context, fhirVersion)} :
       /\ ~FaultHits(LoadContextCalls(context) \cup LoadContextCalls(effectiveContext))
       /\ \E loaded \in {loadContext(effectiveContext)} :
            /\ contextPackages' = loaded.contextPackages
            /\ normalizedRootPackages' = loaded.normalizedRootPackages
       /\ ret' = [op |-> "create", outcome |-> "instance", fhirVersion |-> fhirVersion,
                  effectiveContext |-> effectiveContext]
  /\ phase' = "ready"
  /\ fpiCalls' = LoadContextCallsInOrder(context)
       \o (IF HasCorePackage(loadContext(context).contextPackages) THEN <<>>
           ELSE LoadContextCallsInOrder(EffectiveContext(context, fhirVersion)))
  /\ UNCHANGED <<deps, pkgFiles, skipExamples, callerFilter, fault, inflight, fetches, context, indexCache,
                 fastIndex, contentCache, indexCacheSize, fastIndexSize, contentCacheSize,
                 queries, query, candidates, visited, stack>>

\* most dependency links and context entries of a create with a fhirVersion
MaxFhirVersionEdges == 3
MaxFhirVersionContext == 3

\* The packages that declare dependencies, and the core packages.
DependentPackages ==
  {Pkg("hl7.fhir.uv.sdc", "3.0.0"),
   Pkg("hl7.terminology.r4", "5.0.0"),
   Pkg("hl7.fhir.us.core", "3.1.0")}

CorePackages == {Pkg("hl7.fhir.r4.core", "4.0.1"), Pkg("hl7.fhir.r4b.core", "4.3.0")}

FhirVersions == {"4.0", "4.3.0"}

\* the dependency map that holds the links
DepsOf(pkgs, links) == [p \in pkgs |-> {l[2] : l \in {m \in links : m[1] = p}}]

\* Dependency maps in which the core packages declare no dependency and
\* hl7.fhir.r4.core is the core package depended on.
FhirVersionGraphs ==
  {DepsOf(DependentPackages \cup CorePackages, links) :
     links \in {s \in SUBSET (DependentPackages \X
                              (DependentPackages \cup {Pkg("hl7.fhir.r4.core", "4.0.1")})) :
                  Cardinality(s) <= MaxFhirVersionEdges}}

InitFhirVersion ==
  /\ deps \in FhirVersionGraphs
  /\ pkgFiles = NoFiles(DependentPackages \cup CorePackages)
  /\ skipExamples = FALSE
  /\ callerFilter = NoQuery
  /\ fpiCalls = <<>>
  /\ fault = NoFault
  /\ inflight = <<>>
  /\ fetches = <<>>
  /\ context \in SeqsUpTo(DependentPackages \cup CorePackages, MaxFhirVersionContext)
  /\ phase = "new"
  /\ contextPackages = <<>>
  /\ normalizedRootPackages = <<>>
  /\ indexCache = <<>>
  /\ fastIndex = <<>>
  /\ contentCache = <<>>
  /\ indexCacheSize = DefaultIndexCacheSize
  /\ fastIndexSize = DefaultFastIndexSize
  /\ contentCacheSize = DefaultContentCacheSize
  /\ queries = 0
  /\ query = NoQuery
  /\ candidates = <<>>
  /\ ret = NoRet
  /\ visited = <<>>
  /\ stack = <<>>

NextFhirVersion == \E fhirVersion \in FhirVersions : CreateWithFhirVersion(fhirVersion)

SpecFhirVersion == InitFhirVersion /\ [][NextFhirVersion]_vars

----------------------------------------------------------------------------
(* The claim on create with a fhirVersion, under SpecFhirVersion *)

\* the resolved scope of the given context: its roots and all their
\* transitive dependencies
ResolvedScope == UNION {Closure(r) : r \in Range(context)}

CreatedWithFhirVersion == phase = "ready" /\ ret.op = "create"

\* the core package of the fhirVersion was added as an extra root
CoreAdded ==
  ret.effectiveContext = Append(context, CorePackageOfFhirVersion[ret.fhirVersion])

\* C23 (as stated): create with a fhirVersion: if no package of the resolved
\* scope of the given context is a FHIR core package, the core package of the
\* fhirVersion is added as an extra root and the resulting scope contains a
\* core package; if the scope holds a core package, nothing is added and the
\* scope is the one computed without fhirVersion.
C23_AutoCorePackage ==
  CreatedWithFhirVersion =>
    IF \E p \in ResolvedScope : IsFhirCorePackageId(p.id)
    THEN /\ ret.effectiveContext = context
         /\ contextPackages = loadContext(context).contextPackages
    ELSE /\ CoreAdded
         /\ \E p \in Range(contextPackages) : IsFhirCorePackageId(p.id)

----------------------------------------------------------------------------
(* Example packages: create, expandPackageDependencies and the package      *)
(* scope of lookupMeta on dependency graphs that hold an examples package.   *)

\* most dependency links and context entries
MaxExamplesEdges == 2
MaxExamplesContext == 2

ExamplesPackages ==
  {Pkg("hl7.fhir.r4.core", "4.0.1"),
   Pkg("hl7.fhir.r4.examples", "4.0.1"),
   Pkg("hl7.fhir.uv.sdc", "3.0.0")}

\* by id, in all of the scope or within the closure of a package
ExamplesFilters ==
  {[id |-> "doc"]} \cup {[id |-> "doc", package |-> PkgKey(p)] : p \in ExamplesPackages}

InitExamples ==
  /\ deps \in GraphsOver(ExamplesPackages, MaxExamplesEdges)
  /\ pkgFiles = [p \in ExamplesPackages |-> SubSeq(Catalog, 1, 1)]
  /\ skipExamples \in BOOLEAN
  /\ callerFilter = NoQuery
  /\ fpiCalls = <<>>
  /\ fault = NoFault
  /\ inflight = <<>>
  /\ fetches = <<>>
  /\ context \in SeqsUpTo(ExamplesPackages, MaxExamplesContext)
  /\ phase = "new"
  /\ contextPackages = <<>>
  /\ normalizedRootPackages = <<>>
  /\ indexCache = <<>>
  /\ fastIndex = <<>>
  /\ contentCache = <<>>
  /\ indexCacheSize = LargeCache
  /\ fastIndexSize = LargeCache
  /\ contentCacheSize = LargeCache
  /\ queries = 0
  /\ query = NoQuery
  /\ candidates = <<>>
  /\ ret = NoRet
  /\ visited = <<>>
  /\ stack = <<>>

NextExamples ==
  \/ Create
  \/ \E pkg \in ExamplesPackages, asString \in BOOLEAN : ExpandPackageDependencies(pkg, asString)
  \/ \E filter \in ExamplesFilters : LookupMeta(filter)

SpecExamples == InitExamples /\ [][NextExamples]_vars

----------------------------------------------------------------------------
(* The claim on example packages, under SpecExamples *)

IsExamples(p) == Includes(p.id, "examples")

\* The closure of p when links to example packages are followed or not.
ClosureWhen(p, skip) ==
  ReachBy({p}, {pd \in Declared : ~(skip /\ IsExamples(pd[2]))})

\* the package the filter of the last query names
QueryPackage == CHOOSE p \in DOMAIN deps : PkgKey(p) = query["package"]

\* C24: with skipExamples enabled a dependency whose id contains "examples" is
\* neither included in a closure nor walked further, and with skipExamples
\* disabled it is included and walked: in create (the scope is the union of
\* such closures of the normalized roots), in expandPackageDependencies (the
\* result is such a closure) and in the package scope of lookupMeta (the
\* entries returned are the matching entries of the packages of the scope
\* that lie in such a closure).  Hence with skipExamples enabled a package
\* with "examples" in its id is in the scope only if it is a root of the
\* context.
C24_SkipExamples ==
  /\ phase = "ready" =>
       /\ Range(contextPackages) =
            UNION {ClosureWhen(r, skipExamples) : r \in Range(normalizedRootPackages)}
       /\ skipExamples =>
            \A p \in Range(contextPackages) : IsExamples(p) => p \in Range(context)
  /\ (ret.op = "expandPackageDependencies") =>
       /\ Range(ret.value) = ClosureWhen(ret.pkg, skipExamples)
       /\ skipExamples => \A p \in Range(ret.value) : IsExamples(p) => p = ret.pkg
  /\ (ret.op = "lookupMeta" /\ "package" \in DOMAIN query) =>
       {Owner(e) : e \in Range(ret.value)} =
         Range(contextPackages) \cap ClosureWhen(QueryPackage, skipExamples)

\* C24 witness: with skipExamples enabled, lookupMeta within the scope of a
\* package has returned an entry, and none of the examples package that the
\* package depends on, although the examples package is in the scope.
C24_Witness ==
  /\ skipExamples
  /\ ret.op = "lookupMeta" /\ "package" \in DOMAIN query
  /\ Len(ret.value) >= 1
  /\ \E d \in deps[QueryPackage] :
       /\ IsExamples(d) /\ d # QueryPackage
       /\ d \in Range(contextPackages)
       /\ \A e \in Range(ret.value) : Owner(e) # d

----------------------------------------------------------------------------
(* The claim on the order of the matches, under SpecSemver *)

\* the matches in every order
Reorderings(matches) ==
  {[i \in DOMAIN matches |-> matches[p[i]]] : p \in Permutations(DOMAIN matches)}

\* the same winner, or a failure of the same kind
SameOutcome(a, b) ==
  /\ a.outcome = b.outcome
  /\ a.outcome = "value" => a.value = b.value

\* C25 (as stated): the outcome of the duplicate-resolution chain depends on
\* the set of matches and the filter only: on the same candidates in any
\* other order, resolve and resolveMeta return the same winner, or fail as
\* ambiguous as well.
C25_OrderIndependent ==
  ResolveRanOnSeveral =>
    \A reordered \in Reorderings(candidates) :
      SameOutcome(ResolveOutcome(reordered, query), ret)

----------------------------------------------------------------------------
(* The claims on the rules for implicit packages, under SpecChain *)

\* the candidates whose owning package is neither core nor implicit
OtherCandidates ==
  {i \in DOMAIN candidates : candidates[i]["__packageId"] \notin CoreIds \cup ImplicitIds}

\* C26 (as stated): when the candidates are a core match, an implicit-package
\* match and a match of a package that is neither, the implicit-over-core
\* rule discards the core match only, so that resolve and resolveMeta fail
\* with AmbiguousMatch and do not return the implicit match.
C26_OnlyCoreDiscarded ==
  (/\ ResolveRanOnSeveral /\ ~PackageRuleSelects
   /\ Len(candidates) = 3
   /\ Cardinality(CandidatesFrom(CoreIds)) = 1
   /\ Cardinality(CandidatesFrom(ImplicitIds)) = 1
   /\ Cardinality(OtherCandidates) = 1) =>
    ret.outcome = "AmbiguousMatch"


----------------------------------------------------------------------------
(* The claim on a cycle among the roots, under SpecCtx *)

\* a goes before b in the order by id first and by version second
IdThenVersionLess(a, b) ==
  StrLess(a.id, b.id) \/ (a.id = b.id /\ StrLess(a.version, b.version))

\* every root of the context lies in the closure of another root
AllRootsCovered == context # <<>> /\ \A o \in Range(context) : CoveredRoot(o)

\* C27 (as stated): when every root of the context lies in the closure of
\* another root, create retains exactly one root, the first of the roots in the
\* order by id and then by version; and whenever the context is non-empty the
\* normalized root set is non-empty.
C27_FirstRootOfCycle ==
  phase = "ready" =>
    /\ AllRootsCovered =>
         /\ Len(normalizedRootPackages) = 1
         /\ normalizedRootPackages[1] \in Range(context)
         /\ \A o \in Range(context) :
              o = normalizedRootPackages[1] \/ IdThenVersionLess(normalizedRootPackages[1], o)
    /\ context # <<>> => normalizedRootPackages # <<>>

\* The two families of implicit packages, by the ids of the owning packages.
TerminologyIds == {"hl7.terminology.r4", "hl7.terminology.r5"}
ExtensionsIds == {"hl7.fhir.uv.extensions.r4"}

\* Every candidate is from a core or an implicit package, so that the
\* candidates left after the implicit-over-core rule are all implicit; both
\* families are among them.
BothFamiliesRemain ==
  /\ ResolveRanOnSeveral /\ ~PackageRuleSelects
  /\ CandidatesFrom(CoreIds \cup ImplicitIds) = DOMAIN candidates
  /\ CandidatesFrom(TerminologyIds) # {}
  /\ CandidatesFrom(ExtensionsIds) # {}

\* the family the resource type of the filter asks for
FamilyOfFilter ==
  IF "resourceType" \in DOMAIN query
       /\ query["resourceType"] \in {"ValueSet", "ConceptMap", "CodeSystem"}
  THEN TerminologyIds
  ELSE ExtensionsIds

\* the candidates of that family, in the order of the lookup
CandidatesOfFamily == SelectSeq(candidates, LAMBDA m : m["__packageId"] \in FamilyOfFilter)

\* C28: when the candidates left for the resource-type rule are all from
\* implicit packages and both terminology and extensions packages are among
\* them, the rule keeps exactly the terminology candidates if the filter's
\* resourceType is ValueSet, ConceptMap or CodeSystem and exactly the
\* extensions candidates otherwise (another resourceType, or none); a candidate
\* of the other family is never returned, and a candidate of the kept family
\* is returned when several are kept.
C28_ResourceTypeBias ==
  BothFamiliesRemain =>
    /\ AfterResourceTypeBias(AfterImplicitOverCore(candidates).matches, query)
         = CandidatesOfFamily
    /\ ret.outcome = "value" => ret.value["__packageId"] \in FamilyOfFilter
    /\ Len(CandidatesOfFamily) > 1 => ret.outcome = "value"

\* C28 witness: a filter without resourceType has found a ValueSet in a
\* terminology package and in the extensions package, and the copy of the
\* extensions package was returned.
C28_Witness ==
  /\ BothFamiliesRemain
  /\ "resourceType" \notin DOMAIN query
  /\ candidates[1]["resourceType"] = "ValueSet"
  /\ ret.outcome = "value"
  /\ ret.value["__packageId"] \in ExtensionsIds

\* The FHIR major number the id of an implicit package embeds.
FhirMajorOf(packageId) ==
  IF packageId = "hl7.terminology.r5" THEN 5 ELSE 4

\* The candidates left for the version rule: those of implicit packages, and
\* of the family the filter asks for when both families are among them.
RemainingImplicit ==
  IF CandidatesFrom(TerminologyIds) # {} /\ CandidatesFrom(ExtensionsIds) # {}
  THEN CandidatesOfFamily
  ELSE SelectSeq(candidates, LAMBDA m : m["__packageId"] \in ImplicitIds)

\* Every candidate is from a core or an implicit package, and two or more
\* implicit candidates are left for the version rule.
SeveralImplicitRemain ==
  /\ ResolveRanOnSeveral /\ ~PackageRuleSelects
  /\ CandidatesFrom(CoreIds \cup ImplicitIds) = DOMAIN candidates
  /\ Len(RemainingImplicit) >= 2

\* C29: when two or more candidates remain and all are from implicit
\* packages, exactly one of them is returned; no remaining candidate is from a
\* package of a greater version (major, minor, patch compared as numbers, a
\* pre-release suffix ignored), and among the remaining candidates of a package
\* version equal to its own none is from a package id with a greater FHIR
\* major number.
C29_ImplicitVersionBias ==
  SeveralImplicitRemain =>
    /\ ret.outcome = "value"
    /\ \E i \in DOMAIN RemainingImplicit : ret.value = RemainingImplicit[i]
    /\ \A i \in DOMAIN RemainingImplicit :
         LET other == RemainingImplicit[i]["__packageVersion"]
             own == ret.value["__packageVersion"]
         IN  /\ ~VersionGreater(other, own)
             /\ ~VersionGreater(own, other) =>
                  FhirMajorOf(RemainingImplicit[i]["__packageId"])
                    <= FhirMajorOf(ret.value["__packageId"])

\* C29 witness: the document was found in hl7.terminology.r4 6.9.0 and 6.10.0
\* and in hl7.terminology.r5 6.10.0-beta, and the copy of hl7.terminology.r5
\* was returned.
C29_Witness ==
  /\ SeveralImplicitRemain
  /\ {PkgKey(Owner(RemainingImplicit[i])) : i \in DOMAIN RemainingImplicit}
       = {"hl7.terminology.r4#6.9.0", "hl7.terminology.r4#6.10.0",
          "hl7.terminology.r5#6.10.0-beta"}
  /\ ret.outcome = "value"
  /\ PkgKey(Owner(ret.value)) = "hl7.terminology.r5#6.10.0-beta"

----------------------------------------------------------------------------
(* The claim on the entries of one result, under Spec *)

\* lookupMeta has returned
LookupMetaReturned == ret.op = "lookupMeta" /\ "value" \in DOMAIN ret

\* (filename, packageId, packageVersion) of an index entry
EntryIdentity(entry) == <<entry["filename"], entry["__packageId"], entry["__packageVersion"]>>

\* the fast-index buckets in which the entry stands more than once
BucketsRepeating(entry) ==
  {b \in DOMAIN fastIndex :
     \E i, j \in DOMAIN fastIndex[b].v :
       i # j /\ fastIndex[b].v[i] = entry /\ fastIndex[b].v[j] = entry}

\* the fast-index buckets in which the entry stands
BucketsHolding(entry) ==
  {b \in DOMAIN fastIndex : \E i \in DOMAIN fastIndex[b].v : fastIndex[b].v[i] = entry}

\* C30: the result of lookupMeta never holds two entries of the same filename,
\* package id and package version, whether an entry is reached through several
\* fast-index keys, is met again in the round of a later package, or stands
\* more than once in a fast-index bucket.
C30_NoDuplicateEntries ==
  LookupMetaReturned =>
    \A i, j \in DOMAIN ret.value :
      i # j => EntryIdentity(ret.value[i]) # EntryIdentity(ret.value[j])

\* C30 witness: lookupMeta has returned, over a context of two packages, an
\* entry that stands twice in one fast-index bucket and in a second bucket of
\* the filter as well.
C30_Witness ==
  /\ LookupMetaReturned
  /\ Len(contextPackages) = 2
  /\ \E i \in DOMAIN ret.value :
       /\ BucketsRepeating(ret.value[i]) # {}
       /\ Cardinality({b \in BucketsHolding(ret.value[i]) :
            \E k \in DOMAIN getAllFastIndexKeys(normalizePipedFilter(query)) :
              getAllFastIndexKeys(normalizePipedFilter(query))[k] = fastIndex[b].k}) >= 2

----------------------------------------------------------------------------
(* normalizePipedFilter applied to its own result *)

\* normalizePipedFilter on the filter the first call returned
NormalizeAgain ==
  /\ ret.op = "normalize"
  /\ ret' = [op |-> "normalizeAgain", once |-> ret.value,
             value |-> normalizePipedFilter(ret.value)]
  /\ UNCHANGED <<deps, pkgFiles, skipExamples, callerFilter, fault, fpiCalls, inflight, fetches, context, phase,
                 contextPackages,
                 normalizedRootPackages, indexCache, fastIndex, contentCache,
                 indexCacheSize, fastIndexSize, contentCacheSize, queries, query, candidates,
                 visited, stack>>

NextNormTwice == Normalize \/ NormalizeAgain

SpecNormTwice == InitNorm /\ [][NextNormTwice]_vars

NormalizedTwice == ret.op = "normalizeAgain"

\* C38 (as stated): normalizing a normalized filter changes nothing, also when
\* more than one of url, name, id holds a pipe.
C38_Idempotent == NormalizedTwice => ret.value = ret.once

\* C38 (amended): normalizing a normalized filter changes nothing exactly when
\* at most one of url, name, id of the filter holds a pipe; when several do,
\* the second normalization strips the next piped field and takes the version
\* from it.
C38_IdempotentOnOnePipedField ==
  NormalizedTwice =>
    IF Cardinality(PipedFields) <= 1 THEN ret.value = ret.once
    ELSE LET next == IF FirstPiped = "url" /\ "name" \in PipedFields THEN "name" ELSE "id"
             s == query[next]
         IN  /\ ret.value # ret.once
             /\ ret.value[next] = SubSeq(s, 1, FirstPipe(s) - 1)
             /\ ret.value["version"] = SubSeq(s, FirstPipe(s) + 1, VersionEnd(s))
             /\ \A k \in DOMAIN ret.once \ {next, "version"} : ret.value[k] = ret.once[k]

\* C38 witness: a filter whose url holds two pipes and whose name and id hold
\* none was normalized twice, and the second result is the first.
C38_Witness ==
  /\ NormalizedTwice
  /\ PipedFields = {"url"}
  /\ Cardinality(Pipes(query["url"])) = 2
  /\ ret.value = ret.once

----------------------------------------------------------------------------
(* Queries with a filter object the caller keeps: the filter is in query     *)
(* from the start, and every call is made with it.                           *)

\* The filters the caller holds: piped url, name or id, with and without a
\* version of their own, with and without a package.
FrameFilters ==
  {[url |-> "urn:doc"],
   [url |-> "urn:doc|1.0.0"],
   [url |-> "urn:doc|1.0.0", version |-> "9"],
   [resourceType |-> "ValueSet", name |-> "doc|1.0.0"],
   [resourceType |-> "ValueSet", id |-> "doc|1.0.0", version |-> "9"],
   [url |-> "urn:doc|1.0.0", id |-> "doc|2"],
   [url |-> "urn:doc|1.0.0", package |-> "hl7.fhir.uv.sdc#3.0.0"]}

InitFrame ==
  /\ deps \in GraphsOver(LookupPackages, MaxLookupEdges)
  /\ pkgFiles = [p \in LookupPackages |-> Catalog]
  /\ skipExamples = FALSE
  /\ callerFilter = NoQuery
  /\ fpiCalls = <<>>
  /\ fault = NoFault
  /\ inflight = <<>>
  /\ fetches = <<>>
  /\ context \in SeqsUpTo(LookupPackages, MaxLookupContext)
  /\ phase = "ready"
  /\ contextPackages = loadContext(context).contextPackages
  /\ normalizedRootPackages = loadContext(context).normalizedRootPackages
  /\ indexCache = <<>>
  /\ fastIndex = <<>>
  /\ contentCache = <<>>
  /\ indexCacheSize = LargeCache
  /\ fastIndexSize = LargeCache
  /\ contentCacheSize = LargeCache
  /\ queries = 0
  /\ query \in FrameFilters
  /\ candidates = <<>>
  /\ ret = NoRet
  /\ visited = <<>>
  /\ stack = <<>>

NextFrame ==
  \/ Normalize
  \/ LookupMeta(query)
  \/ Lookup(query)
  \/ ResolveMeta(query)
  \/ Resolve(query)

SpecFrame == InitFrame /\ [][NextFrame]_vars

\* C31: after normalization, lookupMeta, lookup, resolve and resolveMeta, with
\* the duplicate resolution they run, every field of the caller's filter
\* object has the value it had before the call, a piped url, name or id and
\* the version included; the filter the call matched with is a normalized
\* copy of it.
C31_FilterNotMutated ==
  ret # NoRet =>
    /\ callerFilter = query
    /\ NormalizedCopy(query) = normalizePipedFilter(query)

\* C31 witness: resolve has resolved the duplicates of a filter with a piped
\* url and a version of its own, and the caller's filter still holds both.
C31_Witness ==
  /\ ret.op = "resolve"
  /\ Len(candidates) > 1
  /\ "outcome" \in DOMAIN ret /\ ret.outcome = "value"
  /\ IsPiped(callerFilter, "url")
  /\ "version" \in DOMAIN callerFilter /\ callerFilter["version"] = "9"

----------------------------------------------------------------------------
(* The claim on the owner of the index entries, under Spec *)

\* the entry carries both stamps, and they name a package of the scope
OwnedByScope(entry) ==
  /\ {"__packageId", "__packageVersion"} \subseteq DOMAIN entry
  /\ Owner(entry) \in Range(contextPackages)

\* C32: in every state, every entry of the per-package index cached under key
\* P is stamped with the id and version of P, every entry of every fast-lookup
\* bucket and of every cached index is stamped with the id and version of a
\* package of getContextPackages(), and so is every entry lookupMeta returns.
C32_EntriesOwnedByScope ==
  /\ \A c \in DOMAIN indexCache : \A i \in DOMAIN indexCache[c].v :
       /\ OwnedByScope(indexCache[c].v[i])
       /\ PkgKey(Owner(indexCache[c].v[i])) = indexCache[c].k
  /\ \A b \in DOMAIN fastIndex : \A i \in DOMAIN fastIndex[b].v :
       OwnedByScope(fastIndex[b].v[i])
  /\ LookupMetaReturned => \A i \in DOMAIN ret.value : OwnedByScope(ret.value[i])

\* C32 witness: the indexes of two packages are cached, and lookupMeta has
\* returned entries of both from the fast-lookup buckets.
C32_Witness ==
  /\ LookupMetaReturned
  /\ Len(indexCache) = 2
  /\ fastIndex # <<>>
  /\ Cardinality({Owner(ret.value[i]) : i \in DOMAIN ret.value}) = 2

----------------------------------------------------------------------------
(* The claim on the installs of create, under SpecCreateFault *)

InstallOf(p) == [call |-> "install", pkg |-> p]

\* the collaborator call that is set to fail was made
FailingCallMade ==
  \E i \in DOMAIN fpiCalls : fpiCalls[i].call = fault.call /\ fpiCalls[i].pkg = fault.pkg

----------------------------------------------------------------------------
(* The claim on the buckets of the cached indexes, under SpecConc *)

\* the bucket of the key holds the entry
InBucket(key, entry) ==
  \E b \in DOMAIN fastIndex :
    /\ fastIndex[b].k = key
    /\ \E i \in DOMAIN fastIndex[b].v : fastIndex[b].v[i] = entry

\* C34 (as stated): at every suspension point of every query, whenever the
\* per-package index cache holds the index of a package, every entry of that
\* index is in the fast-lookup bucket of each of its keys.
C34_CachedIndexIsKeyed ==
  \A c \in DOMAIN indexCache : \A i \in DOMAIN indexCache[c].v :
    \A k \in DOMAIN getAllFastIndexKeys(indexCache[c].v[i]) :
      InBucket(getAllFastIndexKeys(indexCache[c].v[i])[k], indexCache[c].v[i])

----------------------------------------------------------------------------
(* What resolve and resolveMeta return, against the matches of their lookup *)

\* resolve or resolveMeta has returned a value
ResolveReturned ==
  /\ ret.op \in {"resolve", "resolveMeta"}
  /\ "value" \in DOMAIN ret

\* every element of the sequence is one of the candidates
SubCollection(resolved, given) ==
  \A i \in DOMAIN resolved : \E j \in DOMAIN given : given[j] = resolved[i]

\* C35: what the duplicate-resolution chain returns is a sub-collection of the
\* candidates it was given, and the value resolve / resolveMeta return is one
\* of the entries their lookup returned for the same filter, which matches
\* the filter.
C35_ResolvedIsCandidate ==
  /\ ret # NoRet /\ Len(candidates) > 1 =>
       SubCollection(tryResolveDuplicates(candidates, query), candidates)
  /\ ResolveReturned =>
       /\ \E j \in DOMAIN candidates : candidates[j] = ret.value
       /\ matchesFilter(ret.value, normalizePipedFilter(query))

\* the chain has picked one of several candidates
C35_Witness ==
  /\ ResolveReturned
  /\ Len(candidates) > 1
  /\ Len(tryResolveDuplicates(candidates, query)) = 1

----------------------------------------------------------------------------
(* The two dependency operations on one instance, with skipExamples on or   *)
(* off, on dependency graphs that hold an examples package.                  *)

NextDeps ==
  \/ Create
  \/ \E pkg \in ExamplesPackages, asString \in BOOLEAN : GetDirectDependencies(pkg, asString)
  \/ \E pkg \in ExamplesPackages, asString \in BOOLEAN : ExpandPackageDependencies(pkg, asString)

SpecDeps == InitExamples /\ [][NextDeps]_vars

DirectReturned == ret.op = "getDirectDependencies" /\ "value" \in DOMAIN ret

ExpandReturned == ret.op = "expandPackageDependencies" /\ "value" \in DOMAIN ret

\* C36 (as stated): with skipExamples on or off, every package that
\* getDirectDependencies(p) returns is in expandPackageDependencies(p).
C36_DirectWithinExpanded ==
  /\ DirectReturned =>
       \A i \in DOMAIN ret.value : PkgKey(ret.value[i]) \in collectDependencies(ret.pkg)
  /\ ExpandReturned =>
       \A d \in deps[ret.pkg] : \E i \in DOMAIN ret.value : ret.value[i] = d

\* C36 (amended): a package that getDirectDependencies(p) returns is in
\* expandPackageDependencies(p) exactly when the traversal walks into it:
\* skipExamples is off, or its id does not contain "examples", or it is p
\* itself.
C36_WalkedDirectWithinExpanded ==
  /\ DirectReturned =>
       \A i \in DOMAIN ret.value :
         PkgKey(ret.value[i]) \in collectDependencies(ret.pkg)
           <=> (~skipExamples \/ ~IsExamples(ret.value[i]) \/ ret.value[i] = ret.pkg)
  /\ ExpandReturned =>
       \A d \in deps[ret.pkg] :
         (\E i \in DOMAIN ret.value : ret.value[i] = d)
           <=> (~skipExamples \/ ~IsExamples(d) \/ d = ret.pkg)

\* getDirectDependencies has returned an examples package and another one
\* on an instance that skips examples
C36_Witness ==
  /\ DirectReturned
  /\ skipExamples
  /\ \E i, j \in DOMAIN ret.value : IsExamples(ret.value[i]) /\ ~IsExamples(ret.value[j])

----------------------------------------------------------------------------
(* Queries on an instance whose collaborator fails to install a package or  *)
(* to read its index for a while, and then succeeds again.                   *)

IndexingCalls == {"install", "getPackageIndexFile"}

IndexingFaults ==
  {f \in FaultsOn(IndexingCalls, LookupPackages) : f.error = "socket hang up"}

\* await this.fpi.install(pkg) / getPackageIndexFile(pkg) start to reject
CollaboratorFails ==
  /\ phase = "ready"
  /\ fault = NoFault
  /\ fault' \in IndexingFaults
  /\ UNCHANGED <<deps, pkgFiles, skipExamples, callerFilter, fpiCalls, inflight, fetches, context, phase,
                 contextPackages, normalizedRootPackages, indexCache, fastIndex,
                 contentCache, indexCacheSize, fastIndexSize, contentCacheSize, queries,
                 query, candidates, ret, visited, stack>>

\* the collaborator's calls resolve again
CollaboratorRecovers ==
  /\ phase = "ready"
  /\ fault # NoFault
  /\ fault' = NoFault
  /\ UNCHANGED <<deps, pkgFiles, skipExamples, callerFilter, fpiCalls, inflight, fetches, context, phase,
                 contextPackages, normalizedRootPackages, indexCache, fastIndex,
                 contentCache, indexCacheSize, fastIndexSize, contentCacheSize, queries,
                 query, candidates, ret, visited, stack>>

\* the filters of the earlier queries: by type and id within one package
WarmFilters ==
  {[resourceType |-> "ValueSet", id |-> "doc", package |-> PkgKey(p)] : p \in LookupPackages}

ColdCaches == [indexCache |-> <<>>, fastIndex |-> <<>>, results |-> <<>>, error |-> ""]

\* create has succeeded and the collaborator works; the caches are cold, or
\* as an earlier lookupMeta within one package has left them.
InitRecover ==
  /\ deps \in GraphsOver(LookupPackages, MaxLookupEdges)
  /\ pkgFiles = [p \in LookupPackages |-> SubSeq(Catalog, 1, 1)]
  /\ skipExamples = FALSE
  /\ callerFilter = NoQuery
  /\ fpiCalls = <<>>
  /\ fault = NoFault
  /\ inflight = <<>>
  /\ fetches = <<>>
  /\ context \in SeqsUpTo(LookupPackages, MaxLookupContext)
  /\ phase = "ready"
  /\ contextPackages = loadContext(context).contextPackages
  /\ normalizedRootPackages = loadContext(context).normalizedRootPackages
  /\ indexCacheSize \in {SmallCache, LargeCache}
  /\ fastIndexSize \in {SmallCache, LargeCache}
  /\ contentCacheSize = indexCacheSize
  /\ \E warm \in {ColdCaches} \cup
                  {LookupAfter(ColdCaches, Len(contextPackages), f, AllowedPackages(f)) :
                     f \in WarmFilters} :
       /\ indexCache = warm.indexCache
       /\ fastIndex = warm.fastIndex
  /\ contentCache = <<>>
  /\ queries = 0
  /\ query = NoQuery
  /\ candidates = <<>>
  /\ ret = NoRet
  /\ visited = <<>>
  /\ stack = <<>>

NextRecover ==
  \/ CollaboratorFails
  \/ CollaboratorRecovers
  \/ \E filter \in FaultFilters : LookupMeta(filter)
  \/ \E filter \in FaultFilters : Lookup(filter)

SpecRecover == InitRecover /\ [][NextRecover]_vars

\* the fast-lookup entries of a package: the pairs of a bucket's key and an
\* entry of the package in that bucket
FastEntriesOf(cache, pkg) ==
  UNION {{<<cache[b].k, cache[b].v[i]>> :
            i \in {j \in DOMAIN cache[b].v : Owner(cache[b].v[j]) = pkg}} : b \in DOMAIN cache}

\* this step is a lookup or lookupMeta that rejects
LookupRejects ==
  /\ queries' = queries + 1
  /\ "outcome" \in DOMAIN ret'
  /\ ret'.outcome = "error"

\* this step is a lookup or lookupMeta that follows a rejected one, the
\* collaborator having recovered
LookupAfterRecovery ==
  /\ queries' = queries + 1
  /\ "outcome" \in DOMAIN ret
  /\ ret.outcome = "error"
  /\ fault = NoFault

\* the documents of the entries a full linear scan finds
ScannedDocuments(f) == {Enriched(e) : e \in LinearScan(f)}

\* C37 (as stated): when the install of a package P or the read of its index
\* fails during a lookup, the failed attempt caches nothing for P (no
\* per-package index, no new fast-lookup entry of P) and leaves the indexes
\* cached for other packages as they were; the lookup that follows, once the
\* collaborator succeeds, returns, and returns every matching entry of the
\* scope.
C37_FailedIndexingRecovers ==
  [][/\ LookupRejects =>
          /\ ~LruHas(indexCache', PkgKey(fault.pkg))
          /\ FastEntriesOf(fastIndex', fault.pkg) \subseteq FastEntriesOf(fastIndex, fault.pkg)
          /\ \A i \in DOMAIN indexCache :
               LruHas(indexCache', indexCache[i].k) =>
                 LruPeek(indexCache', indexCache[i].k) = indexCache[i].v
     /\ LookupAfterRecovery =>
          /\ "value" \in DOMAIN ret'
          /\ ret'.op = "lookupMeta" => Range(ret'.value) = LinearScan(query')
          /\ ret'.op = "lookup" => Range(ret'.value) = ScannedDocuments(query')]_vars
====
